---- MODULE Spec2Model ----
(***************************************************************************)
(* Conversion-order lifecycle of the Telegram conversion bot:              *)
(* src/src/telegram/bot.js (command and callback handlers, instantConvert),*)
(* src/src/web/server.js (the exchange client "binance") and               *)
(* src/unnamed/part_001 (main.js: rate-limit configuration, admin          *)
(* notification; database.js: the orders table).                           *)
(*                                                                         *)
(* Text is modelled as a sequence of characters (one-character strings);   *)
(* the literal words of the callback data ("confirm", "convert", "cancel") *)
(* are single atoms, since they contain no separator.  Amounts are JS      *)
(* numbers, modelled as a count of hundredths; NaN is a value of its own.  *)
(***************************************************************************)
EXTENDS Integers, Sequences, FiniteSets, TLC

VARIABLES
    now,             \* Date.now(), in ms
    userRateLimits,  \* main.js userRateLimits: chatId -> {count, lastReset, lang}
    supportedAssets, \* binance.supportedAssets: list of {fromAsset, toAsset}
    assetsFile,      \* the list stored in SUPPORTED_ASSETS_FILE
    orders,          \* rows of the orders table
    prompts,         \* inline keyboards delivered to chats and still tappable
    tasks,           \* handlers suspended at an await of an exchange call
    calls,           \* number of HTTP requests issued per exchange endpoint
    nextOrd,         \* number of order ids the exchange has issued
    nextHex,         \* number of crypto.randomBytes ids drawn
    lastDone,        \* the handler invocation that returned most recently
    nCmds,           \* inbound updates delivered so far
    convLog          \* per chat, the /convert commands handled: time, outcome of the rate check

vars == <<now, userRateLimits, supportedAssets, assetsFile, orders, prompts, tasks, calls,
          nextOrd, nextHex, lastDone, nCmds, convLog>>

-----------------------------------------------------------------------------
(* Bounds of the model *)

MaxCmds == 3          \* inbound updates in a run of the order specification
MaxRateCmds == 13     \* inbound updates in a run of the rate-limiter specification
MaxTasks == 2         \* handlers suspended at the same time
MaxPrompts == 2       \* distinct inline keyboards kept tappable

(* Program constants *)
RATE_LIMIT_WINDOW_MS == 60000
RATE_LIMIT_MAX_REQUESTS == 10
ADMIN_CHAT_ID == 1

Chats == {1, 2}
NaN == 0 - 1          \* the JS value NaN (no amount of the model is negative)
Scale == 10 * 10      \* amounts are counted in hundredths

\* clock readings the model lets Date.now() take
Times == {0, 60000, 60001, 120002}

-----------------------------------------------------------------------------
(* Characters and strings *)

Digits == <<"0", "1", "2", "3", "4", "5", "6", "7", "8", "9">>

IsDigit(c) == \E i \in 1..10 : Digits[i] = c

DigitVal(c) == (CHOOSE i \in 1..10 : Digits[i] = c) - 1

Letters == {"a", "b", "c", "A", "B", "C"}

\* the regular expression class \w
IsWordChar(c) == c \in Letters \/ IsDigit(c) \/ c = "_"

\* /^\w+$/
IsWord(s) == Len(s) > 0 /\ \A i \in 1..Len(s) : IsWordChar(s[i])

UpperChar(c) ==
    CASE c = "a" -> "A"
      [] c = "b" -> "B"
      [] c = "c" -> "C"
      [] OTHER -> c

toUpperCase(s) == [i \in 1..Len(s) |-> UpperChar(s[i])]

\* length of the longest prefix of s made of digits
RECURSIVE DigitRun(_)
DigitRun(s) ==
    IF Len(s) = 0 \/ ~IsDigit(Head(s)) THEN 0 ELSE 1 + DigitRun(Tail(s))

\* length of the prefix of s matched by the greedy pattern \d+(\.\d+)? ; 0 when none
AmountMatchLen(s) ==
    LET n == DigitRun(s)
        rest == SubSeq(s, n + 1, Len(s))
        f == IF Len(rest) > 0 /\ Head(rest) = "." THEN DigitRun(Tail(rest)) ELSE 0
    IN IF n = 0 THEN 0 ELSE IF f > 0 THEN n + 1 + f ELSE n

RECURSIVE IntVal(_)
IntVal(s) == IF Len(s) = 0 THEN 0 ELSE 10 * IntVal(SubSeq(s, 1, Len(s) - 1)) + DigitVal(s[Len(s)])

\* parseFloat: the longest numeric prefix (digits, then optionally a point and
\* digits), NaN when the text does not start with a number.  Fractions are kept
\* to the model's two decimals; no text the handlers parse starts with a sign.
parseFloat(s) ==
    LET n == DigitRun(s)
        rest == SubSeq(s, n + 1, Len(s))
        f == IF Len(rest) > 0 /\ Head(rest) = "." THEN DigitRun(Tail(rest)) ELSE 0
        frac == IF f = 0 THEN <<>> ELSE SubSeq(rest, 2, 1 + f)
        fracVal == IF f = 0 THEN 0
                   ELSE IF f = 1 THEN 10 * IntVal(frac)
                   ELSE IntVal(SubSeq(frac, 1, 2))
    IN IF n = 0 /\ f = 0 THEN NaN
       ELSE Scale * IntVal(SubSeq(s, 1, n)) + fracVal

RECURSIVE IntStr(_)
IntStr(n) == IF n < 10 THEN <<Digits[n + 1]>> ELSE IntStr(n \div 10) \o <<Digits[(n % 10) + 1]>>

\* Number -> string, as in a template literal `${amount}`
NumberToString(a) ==
    IF a = NaN THEN <<"N", "a", "N">>
    ELSE LET i == a \div Scale
             f == a % Scale
         IN IntStr(i) \o
            (IF f = 0 THEN <<>>
             ELSE IF f % 10 = 0 THEN <<".", Digits[(f \div 10) + 1]>>
             ELSE <<".", Digits[(f \div 10) + 1], Digits[(f % 10) + 1]>>)

\* String.prototype.split(sep): the pieces between the occurrences of sep
RECURSIVE Split(_, _)
Split(s, sep) ==
    IF \A i \in 1..Len(s) : s[i] # sep THEN <<s>>
    ELSE LET k == CHOOSE i \in 1..Len(s) : s[i] = sep /\ \A j \in 1..(i - 1) : s[j] # sep
         IN <<SubSeq(s, 1, k - 1)>> \o Split(SubSeq(s, k + 1, Len(s)), sep)

startsWith(s, p) == Len(s) >= Len(p) /\ SubSeq(s, 1, Len(p)) = p

ConfirmPrefix == <<"confirm", "_", "convert", "_">>
CancelData == <<"cancel", "_", "convert">>

ConfirmDataSwapped(fromAsset, toAsset, amount) ==
    ConfirmPrefix \o toAsset \o <<"_">> \o fromAsset \o <<"_">> \o NumberToString(amount)

\* callback_data of the confirm button
ConfirmData(fromAsset, toAsset, amount) ==
    ConfirmPrefix \o fromAsset \o <<"_">> \o toAsset \o <<"_">> \o NumberToString(amount)

\* parts[i] of a JS array, 0-based; a missing element is undefined
Undefined == <<"undefined">>
Part(parts, i) == IF i + 1 <= Len(parts) THEN parts[i + 1] ELSE Undefined

-----------------------------------------------------------------------------
(* Values *)

NoId == [src |-> "none", n |-> 0]
ExId(n) == [src |-> "exchange", n |-> n]      \* n-th order id issued by the exchange
HexId(n) == [src |-> "local", n |-> n]        \* n-th crypto.randomBytes(16).toString('hex')

Msg(to, kind, data) == [to |-> to, kind |-> kind, data |-> data]

\* one invocation of a handler
NewTask(kind, chat) ==
    [kind |-> kind, chat |-> chat, pc |-> "run",
     fromAsset |-> <<>>, toAsset |-> <<>>, amount |-> 0, price |-> 0,
     args |-> <<>>, reqId |-> NoId, data |-> <<>>,
     quoteCalls |-> 0, acceptCalls |-> 0, placeCalls |-> 0, cancelCalls |-> 0,
     quoteResp |-> "none", acceptArg |-> "none", resp |-> "none", exchId |-> NoId,
     result |-> "none", rowId |-> NoId, out |-> <<>>, seq |-> 0,
     newPairs |-> <<>>, existingPairs |-> <<>>, removedPairs |-> <<>>, notFoundPairs |-> <<>>,
     content |-> <<>>, writeNo |-> 0, listed |-> <<>>, exchangeInfoList |-> <<>>,
     outcomes |-> <<>>, assets |-> <<>>, assetInfoList |-> <<>>, notFoundAssets |-> <<>>,
     escaped |-> "none"]

Row(orderId, chatId, fromAsset, toAsset, amount, status, error, timestamp) ==
    [orderId |-> orderId, chatId |-> chatId, fromAsset |-> fromAsset, toAsset |-> toAsset,
     amount |-> amount, status |-> status, error |-> error, timestamp |-> timestamp]

\* CURRENT_TIMESTAMP has a resolution of one second
CurrentTimestamp == now \div 1000

\* a table without a key: every INSERT adds its row
InsertRowAlways(table, row) == table \cup {row}

\* INSERT INTO orders: orderId is the PRIMARY KEY, a second row with the same
\* orderId is refused and the table is left as it was
InsertRow(table, row) ==
    IF \E r \in table : r.orderId = row.orderId THEN table ELSE table \cup {row}

\* UPDATE orders SET status = ? WHERE orderId = ?
UpdateStatus(table, orderId, status) ==
    {IF r.orderId = orderId THEN [r EXCEPT !.status = status] ELSE r : r \in table}

\* sendPersistentMenu(chatId)
sendPersistentMenu(chatId) == <<Msg(chatId, "menu", <<>>)>>

\* sendErrorNotification(message): one message to the admin chat
sendErrorNotification(what) == <<Msg(ADMIN_CHAT_ID, "admin_error", <<what>>)>>

Finish(t, result, out) ==
    [t EXCEPT !.pc = "done", !.result = result, !.out = @ \o out, !.seq = lastDone.seq + 1]

-----------------------------------------------------------------------------
(* Rate limiter and supported pairs, as the /convert handler computes them *)

\* a limiter in which every /convert also counts against the other chats
RateLimitUpdateShared(limits, chatId, t) ==
    [c \in DOMAIN limits \cup {chatId} |->
        IF c # chatId THEN [limits[c] EXCEPT !.count = @ + 1]
        ELSE IF chatId \notin DOMAIN limits
        THEN [count |-> 1, lastReset |-> t, lang |-> "zh"]
        ELSE IF t - limits[chatId].lastReset > RATE_LIMIT_WINDOW_MS
        THEN [limits[chatId] EXCEPT !.count = 1, !.lastReset = t]
        ELSE [limits[chatId] EXCEPT !.count = @ + 1]]

RateLimitUpdate(limits, chatId, t) ==
    IF chatId \notin DOMAIN limits
    THEN [c \in DOMAIN limits \cup {chatId} |->
            IF c = chatId THEN [count |-> 1, lastReset |-> t, lang |-> "zh"] ELSE limits[c]]
    ELSE IF t - limits[chatId].lastReset > RATE_LIMIT_WINDOW_MS
         THEN [limits EXCEPT ![chatId].count = 1, ![chatId].lastReset = t]
         ELSE [limits EXCEPT ![chatId].count = @ + 1]

RateLimitExceededAtMax(limits, chatId) == limits[chatId].count >= RATE_LIMIT_MAX_REQUESTS

RateLimitExceededOneLate(limits, chatId) ==
    limits[chatId].count > RATE_LIMIT_MAX_REQUESTS + 1

RateLimitExceeded(limits, chatId) == limits[chatId].count > RATE_LIMIT_MAX_REQUESTS

isSupportedStoredDirection(assets, fromAsset, toAsset) ==
    \E i \in 1..Len(assets) : assets[i].fromAsset = fromAsset /\ assets[i].toAsset = toAsset

isSupported(assets, fromAsset, toAsset) ==
    \E i \in 1..Len(assets) :
        \/ (assets[i].fromAsset = fromAsset /\ assets[i].toAsset = toAsset)
        \/ (assets[i].fromAsset = toAsset /\ assets[i].toAsset = fromAsset)

\* /\/convert (\w+) (\w+) (\d+(\.\d+)?)/ on "/convert f t a"
ConvertMatches(f, t, a) == IsWord(f) /\ IsWord(t) /\ AmountMatchLen(a) > 0

-----------------------------------------------------------------------------
(* Handlers *)

StartResets(c) ==
    /\ userRateLimits' =
         [x \in DOMAIN userRateLimits \cup {c} |->
             IF x = c THEN [count |-> 0, lastReset |-> now, lang |-> "zh"]
             ELSE userRateLimits[x]]
    /\ lastDone' = Finish(NewTask("start", c), "welcome",
                          <<Msg(c, "welcome", <<>>)>> \o sendPersistentMenu(c))
    /\ UNCHANGED <<now, supportedAssets, assetsFile, orders, prompts, tasks, calls, nextOrd, nextHex, convLog>>

\* a /start that sets the count of an existing entry back to 0
StartGivesBack(c) ==
    /\ userRateLimits' =
         IF c \in DOMAIN userRateLimits THEN [userRateLimits EXCEPT ![c].count = 0]
         ELSE [x \in DOMAIN userRateLimits \cup {c} |->
                 IF x = c THEN [count |-> 0, lastReset |-> now, lang |-> "zh"]
                 ELSE userRateLimits[x]]
    /\ lastDone' = Finish(NewTask("start", c), "welcome",
                          <<Msg(c, "welcome", <<>>)>> \o sendPersistentMenu(c))
    /\ UNCHANGED <<now, supportedAssets, assetsFile, orders, prompts, tasks, calls, nextOrd, nextHex, convLog>>

\* /start
Start(c) ==
    /\ userRateLimits' =
         IF c \in DOMAIN userRateLimits THEN userRateLimits
         ELSE [x \in DOMAIN userRateLimits \cup {c} |->
                 IF x = c THEN [count |-> 0, lastReset |-> now, lang |-> "zh"]
                 ELSE userRateLimits[x]]
    /\ lastDone' = Finish(NewTask("start", c), "welcome",
                          <<Msg(c, "welcome", <<>>)>> \o sendPersistentMenu(c))
    /\ UNCHANGED <<now, supportedAssets, assetsFile, orders, prompts, tasks, calls, nextOrd, nextHex, convLog>>

\* /convert f t a : the whole handler runs without an exchange call
Convert(c, f, t, a) ==
    IF ~ConvertMatches(f, t, a)
    THEN /\ lastDone' = Finish([NewTask("convert", c) EXCEPT !.args = <<f, t, a>>],
                               "nomatch", <<>>)
         /\ UNCHANGED <<now, userRateLimits, supportedAssets, assetsFile, orders, prompts, tasks, calls,
                        nextOrd, nextHex, convLog>>
    ELSE
      LET fromAsset == toUpperCase(f)
          toAsset == toUpperCase(t)
          amount == parseFloat(SubSeq(a, 1, AmountMatchLen(a)))
          limits == RateLimitUpdate(userRateLimits, c, now)
          exceeded == RateLimitExceeded(limits, c)
          supported == isSupported(supportedAssets, fromAsset, toAsset)
          data == ConfirmData(fromAsset, toAsset, amount)
          base == [NewTask("convert", c) EXCEPT !.args = <<f, t, a>>,
                     !.fromAsset = fromAsset, !.toAsset = toAsset, !.amount = amount]
          entry == [t |-> now, pass |-> ~exceeded,
                    ws |-> limits[c].lastReset, cnt |-> limits[c].count]
      IN /\ userRateLimits' = limits
         /\ convLog' = [convLog EXCEPT ![c] = Append(@, entry)]
         /\ IF exceeded
            THEN /\ lastDone' = Finish(base, "rate_limited",
                                       <<Msg(c, "rate_limit_exceeded", <<>>)>>)
                 /\ prompts' = prompts
            ELSE IF ~supported
            THEN /\ lastDone' = Finish(base, "unsupported",
                                       <<Msg(c, "pair_not_supported", <<>>)>>)
                 /\ prompts' = prompts
            ELSE /\ lastDone' = Finish([base EXCEPT !.data = data], "prompt",
                                       <<Msg(c, "confirm_prompt", data)>>)
                 /\ prompts' = prompts \cup {[chat |-> c, data |-> data]}
                 /\ Cardinality(prompts') <= MaxPrompts
         /\ UNCHANGED <<now, supportedAssets, assetsFile, orders, tasks, calls, nextOrd, nextHex>>

\* fromAsset || 'Unknown'
OrUnknown(s) == IF s = <<>> \/ s = Undefined THEN <<"Unknown">> ELSE s

\* amount || 0
OrZero(a) == IF a = NaN THEN 0 ELSE a

CompletedRowSwapped(t, orderId) ==
    Row(orderId, t.chat, t.toAsset, t.fromAsset, t.amount, "completed", "NULL", CurrentTimestamp)

PendingRowCompleted(t, orderId) ==
    Row(orderId, t.chat, t.fromAsset, t.toAsset, t.amount, "completed", "NULL", CurrentTimestamp)

FailedRowNoError(t, quoteId, message) ==
    Row(quoteId, t.chat, OrUnknown(t.fromAsset), OrUnknown(t.toAsset), OrZero(t.amount),
        "failed", "NULL", CurrentTimestamp)

\* the row instantConvert inserts after the accept call returned an order id
CompletedRow(t, orderId) ==
    Row(orderId, t.chat, t.fromAsset, t.toAsset, t.amount, "completed", "NULL", CurrentTimestamp)

\* the row /placeorder inserts after the exchange returned an order id
PendingRow(t, orderId) ==
    Row(orderId, t.chat, t.fromAsset, t.toAsset, t.amount, "pending", "NULL", CurrentTimestamp)

\* the row the catch blocks of instantConvert and /placeorder insert
FailedRow(t, quoteId, message) ==
    Row(quoteId, t.chat, OrUnknown(t.fromAsset), OrUnknown(t.toAsset), OrZero(t.amount),
        "failed", message, CurrentTimestamp)

RemoveAt(s, i) == SubSeq(s, 1, i - 1) \o SubSeq(s, i + 1, Len(s))

Bump(field) == [calls EXCEPT ![field] = @ + 1]

CallbackConfirmOnce(p) ==
    LET parts == Split(p.data, "_")
        t == [NewTask("confirm", p.chat) EXCEPT
                !.data = p.data,
                !.fromAsset = Part(parts, 2),
                !.toAsset = Part(parts, 3),
                !.amount = parseFloat(Part(parts, 4)),
                !.pc = "quote",
                !.quoteCalls = @ + 1]
        tapped == \/ \E i \in 1..Len(tasks) : tasks[i].chat = p.chat /\ tasks[i].data = p.data
                  \/ \E r \in orders : r.chatId = p.chat /\ r.fromAsset = t.fromAsset
                                        /\ r.toAsset = t.toAsset
    IN /\ startsWith(p.data, ConfirmPrefix)
       /\ Len(tasks) < MaxTasks
       /\ IF tapped
          THEN /\ lastDone' = Finish([t EXCEPT !.quoteCalls = 0], "duplicate", <<>>)
               /\ UNCHANGED <<tasks, calls>>
          ELSE /\ tasks' = Append(tasks, t)
               /\ calls' = Bump("quote")
               /\ UNCHANGED lastDone
       /\ UNCHANGED <<now, userRateLimits, supportedAssets, assetsFile, orders, prompts, nextOrd, nextHex,
                      convLog>>

\* callback_query with data confirm_convert_...: the handler parses the data and
\* instantConvert issues the quote request
CallbackConfirm(p) ==
    LET parts == Split(p.data, "_")
        t == [NewTask("confirm", p.chat) EXCEPT
                !.data = p.data,
                !.fromAsset = Part(parts, 2),
                !.toAsset = Part(parts, 3),
                !.amount = parseFloat(Part(parts, 4)),
                !.pc = "quote",
                !.quoteCalls = @ + 1]
    IN /\ startsWith(p.data, ConfirmPrefix)
       /\ Len(tasks) < MaxTasks
       /\ tasks' = Append(tasks, t)
       /\ calls' = Bump("quote")
       /\ UNCHANGED <<now, userRateLimits, supportedAssets, assetsFile, orders, prompts, nextOrd, nextHex,
                      lastDone, convLog>>

\* catch block of instantConvert, then the menu of the callback handler
ConvertFailed(i, r, message) ==
    LET t == IF tasks[i].pc = "quote" THEN [tasks[i] EXCEPT !.quoteResp = r]
             ELSE [tasks[i] EXCEPT !.resp = r]
        quoteId == HexId(nextHex + 1)
    IN /\ nextHex' = nextHex + 1
       /\ orders' = InsertRow(orders, FailedRow(t, quoteId, message))
       /\ lastDone' = Finish([t EXCEPT !.rowId = quoteId], "failed",
                             <<Msg(t.chat, "convert_failed", <<message>>)>>
                             \o sendErrorNotification(message)
                             \o sendPersistentMenu(t.chat) \o sendPersistentMenu(t.chat))
       /\ tasks' = RemoveAt(tasks, i)
       /\ UNCHANGED <<now, userRateLimits, supportedAssets, assetsFile, prompts, calls, nextOrd, convLog>>

QuoteIds == {"q1", "q2"}

\* !quote || !quote.quoteId is false
HasQuoteId(r) == r \in QuoteIds

AcceptArgumentStale(r) == "q1"

\* the argument of binance.acceptConvertQuote: quote.quoteId
AcceptArgument(r) == r

HasOrderIdAnyBody(r) == r # "throw"

\* acceptResult && acceptResult.orderId, and the same test on orderResult and cancelResult
HasOrderId(r) == r = "id"

\* the quote request returns: it threw, it carried no quoteId, or it carried one
QuoteResp(i, r) ==
    /\ tasks[i].pc = "quote"
    /\ IF HasQuoteId(r)
       THEN /\ tasks' = [tasks EXCEPT ![i].pc = "accept", ![i].quoteResp = r,
                                      ![i].acceptArg = AcceptArgument(r),
                                      ![i].acceptCalls = @ + 1]
            /\ calls' = Bump("accept")
            /\ UNCHANGED <<now, userRateLimits, supportedAssets, assetsFile, orders, prompts, nextOrd,
                           nextHex, lastDone, convLog>>
       ELSE ConvertFailed(i, r, IF r = "throw" THEN "quote request failed"
                                ELSE "no quote returned")

\* the accept request returns
AcceptResp(i, r) ==
    /\ tasks[i].pc = "accept"
    /\ IF HasOrderId(r)
       THEN LET orderId == ExId(nextOrd + 1)
                t == [tasks[i] EXCEPT !.resp = r, !.exchId = orderId]
            IN /\ nextOrd' = nextOrd + 1
               /\ orders' = InsertRow(orders, CompletedRow(t, orderId))
               /\ lastDone' = Finish([t EXCEPT !.rowId = orderId], "completed",
                                     <<Msg(t.chat, "convert_success", <<>>)>>
                                     \o sendPersistentMenu(t.chat) \o sendPersistentMenu(t.chat))
               /\ tasks' = RemoveAt(tasks, i)
               /\ UNCHANGED <<now, userRateLimits, supportedAssets, assetsFile, prompts, calls, nextHex,
                              convLog>>
       ELSE ConvertFailed(i, r, IF r = "throw" THEN "accept request failed"
                                ELSE "conversion not executed")

\* callback_query with data cancel_convert
CallbackCancel(p) ==
    /\ lastDone' = Finish([NewTask("cancel_convert", p.chat) EXCEPT !.data = CancelData],
                          "cancelled",
                          <<Msg(p.chat, "convert_cancelled", <<>>)>> \o sendPersistentMenu(p.chat))
    /\ UNCHANGED <<now, userRateLimits, supportedAssets, assetsFile, orders, prompts, tasks, calls,
                   nextOrd, nextHex, convLog>>

\* /\/placeorder (\w+) (\w+) (\d+(\.\d+)?) (\d+(\.\d+)?)$/ on "/placeorder f t a p"
PlaceOrderMatches(f, t, a, p) ==
    /\ IsWord(f) /\ IsWord(t)
    /\ AmountMatchLen(a) > 0 /\ AmountMatchLen(a) = Len(a)
    /\ AmountMatchLen(p) > 0 /\ AmountMatchLen(p) = Len(p)

InvalidNumbersNegativeOnly(amount, price) == amount = NaN \/ price = NaN

\* isNaN(amount) || amount <= 0 || isNaN(price) || price <= 0
InvalidNumbers(amount, price) == amount = NaN \/ amount <= 0 \/ price = NaN \/ price <= 0

\* /placeorder: validation, pair check, then the limit-order request
PlaceOrder(c, f, t, a, p) ==
    IF ~PlaceOrderMatches(f, t, a, p)
    THEN /\ lastDone' = Finish([NewTask("placeorder", c) EXCEPT !.args = <<f, t, a, p>>],
                               "nomatch", <<>>)
         /\ UNCHANGED <<now, userRateLimits, supportedAssets, assetsFile, orders, prompts, tasks, calls,
                        nextOrd, nextHex, convLog>>
    ELSE
      LET base == [NewTask("placeorder", c) EXCEPT !.args = <<f, t, a, p>>,
                     !.fromAsset = toUpperCase(f), !.toAsset = toUpperCase(t),
                     !.amount = parseFloat(a), !.price = parseFloat(p)]
      IN IF InvalidNumbers(base.amount, base.price)
         THEN /\ lastDone' = Finish(base, "invalid", <<Msg(c, "must_be_positive", <<>>)>>)
              /\ UNCHANGED <<now, userRateLimits, supportedAssets, assetsFile, orders, prompts, tasks,
                             calls, nextOrd, nextHex, convLog>>
         ELSE IF ~isSupported(supportedAssets, base.fromAsset, base.toAsset)
         THEN /\ lastDone' = Finish(base, "unsupported", <<Msg(c, "pair_not_supported", <<>>)>>)
              /\ UNCHANGED <<now, userRateLimits, supportedAssets, assetsFile, orders, prompts, tasks,
                             calls, nextOrd, nextHex, convLog>>
         ELSE /\ Len(tasks) < MaxTasks
              /\ tasks' = Append(tasks, [base EXCEPT !.pc = "place", !.placeCalls = @ + 1])
              /\ calls' = Bump("place")
              /\ UNCHANGED <<now, userRateLimits, supportedAssets, assetsFile, orders, prompts, nextOrd,
                             nextHex, lastDone, convLog>>

\* the limit-order request returns
PlaceResp(i, r) ==
    LET t == [tasks[i] EXCEPT !.resp = r] IN
    /\ t.pc = "place"
    /\ tasks' = RemoveAt(tasks, i)
    /\ IF HasOrderId(r)
       THEN LET orderId == ExId(nextOrd + 1)
            IN /\ nextOrd' = nextOrd + 1
               /\ orders' = InsertRow(orders, PendingRow(t, orderId))
               /\ lastDone' = Finish([t EXCEPT !.rowId = orderId, !.exchId = orderId],
                                     "pending",
                                     <<Msg(t.chat, "order_placed", <<>>)>>
                                     \o sendPersistentMenu(t.chat))
               /\ UNCHANGED nextHex
       ELSE LET quoteId == HexId(nextHex + 1)
                message == IF r = "throw" THEN "limit order request failed"
                           ELSE "limit order not created"
            IN /\ nextHex' = nextHex + 1
               /\ orders' = InsertRow(orders, FailedRow(t, quoteId, message))
               /\ lastDone' = Finish([t EXCEPT !.rowId = quoteId], "failed",
                                     <<Msg(t.chat, "convert_failed", <<message>>)>>
                                     \o sendErrorNotification(message)
                                     \o sendPersistentMenu(t.chat))
               /\ UNCHANGED nextOrd
    /\ UNCHANGED <<now, userRateLimits, supportedAssets, assetsFile, prompts, calls, convLog>>

\* a handler that looks the row up for the requesting chat before it calls the exchange
CancelOrderOwned(c, id) ==
    IF (\E r \in orders : r.orderId = id /\ r.chatId = c)
    THEN /\ Len(tasks) < MaxTasks
         /\ tasks' = Append(tasks, [NewTask("cancelorder", c) EXCEPT
                                      !.reqId = id, !.pc = "cancel", !.cancelCalls = @ + 1])
         /\ calls' = Bump("cancel")
         /\ UNCHANGED <<now, userRateLimits, supportedAssets, assetsFile, orders, prompts, nextOrd,
                        nextHex, lastDone, convLog>>
    ELSE /\ lastDone' = Finish([NewTask("cancelorder", c) EXCEPT !.reqId = id], "not_found",
                               <<Msg(c, "order_not_found", <<>>)>>)
         /\ UNCHANGED <<now, userRateLimits, supportedAssets, assetsFile, orders, prompts, tasks,
                        calls, nextOrd, nextHex, convLog>>

\* /cancelorder id: the cancel request is issued at once
CancelOrder(c, id) ==
    /\ Len(tasks) < MaxTasks
    /\ tasks' = Append(tasks, [NewTask("cancelorder", c) EXCEPT
                                 !.reqId = id, !.pc = "cancel", !.cancelCalls = @ + 1])
    /\ calls' = Bump("cancel")
    /\ UNCHANGED <<now, userRateLimits, supportedAssets, assetsFile, orders, prompts, nextOrd, nextHex,
                   lastDone, convLog>>

\* the cancel request returns
CancelResp(i, r) ==
    LET t == [tasks[i] EXCEPT !.resp = r] IN
    /\ t.pc = "cancel"
    /\ tasks' = RemoveAt(tasks, i)
    /\ IF HasOrderId(r)
       THEN /\ orders' = UpdateStatus(orders, t.reqId, "canceled")
            /\ lastDone' = Finish(t, "canceled",
                                  <<Msg(t.chat, "order_canceled", <<>>)>>
                                  \o sendPersistentMenu(t.chat))
       ELSE LET message == IF r = "throw" THEN "cancel request failed"
                           ELSE "limit order not canceled"
            IN /\ orders' = orders
               /\ lastDone' = Finish(t, "failed",
                                     <<Msg(t.chat, "convert_failed", <<message>>)>>
                                     \o sendErrorNotification(message))
    /\ UNCHANGED <<now, userRateLimits, supportedAssets, assetsFile, prompts, calls, nextOrd, nextHex,
                   convLog>>

-----------------------------------------------------------------------------
(* Reading the order store.  main.js hands bot.js the sqlite3 Database itself *)
(* (const { db } = require('./db/database')), not the promisified get / all. *)

\* the sqlite3 Database object: it has no column of an order and no length
Database == [handle |-> "sqlite3.Database"]

\* obj.name of a JS object; a property the object does not have is undefined
Column(obj, name) ==
    IF name \in DOMAIN obj THEN obj[name]
    ELSE IF name = "orderId" THEN NoId ELSE "undefined"

\* SELECT * FROM orders WHERE orderId = ? AND chatId = ?
SelectOrder(table, orderId, chatId) == {r \in table : r.orderId = orderId /\ r.chatId = chatId}

\* SELECT * FROM orders WHERE chatId = ?
SelectByChat(table, chatId) == {r \in table : r.chatId = chatId}

\* db.get(sql, params) called without a callback: the statement is queued, its row
\* is handed to no one, and the call returns the Database object (for chaining)
dbGet(table, orderId, chatId) == Database

\* db.all(sql, params) called without a callback: likewise
dbAll(table, chatId) == Database

\* orderStatusList && orderStatusList.length > 0
HasRows(list) ==
    LET n == Column(list, "length") IN IF n = "undefined" THEN FALSE ELSE n > 0

\* the JS value null
Null == [null |-> TRUE]

\* !order is false
Truthy(v) == v # Null

\* /status id
Status(c, id) ==
    LET order == dbGet(orders, id, c)
        base == [NewTask("status", c) EXCEPT !.reqId = id]
        status == Column(order, "status")
        shown == IF status = "failed" THEN <<status, Column(order, "error")>> ELSE <<status>>
    IN /\ lastDone' =
            IF ~Truthy(order)
            THEN Finish(base, "not_found", <<Msg(c, "order_not_found", <<>>)>>)
            ELSE Finish([base EXCEPT !.rowId = Column(order, "orderId")], "status",
                        <<Msg(c, "order_status", shown)>> \o sendPersistentMenu(c))
       /\ UNCHANGED <<now, userRateLimits, supportedAssets, assetsFile, orders, prompts, tasks,
                      calls, nextOrd, nextHex, convLog>>

\* one of the two registered /tradehistory handlers; the list is what db.all
\* returned, and iterating over it with forEach throws into the catch block
TradeHistoryReply(c) ==
    LET orderStatusList == dbAll(orders, c)
    IN IF HasRows(orderStatusList)
       THEN <<Msg(c, "convert_failed", <<"forEach is not a function">>)>>
            \o sendErrorNotification("forEach is not a function")
       ELSE <<Msg(c, "no_history", <<>>)>> \o sendPersistentMenu(c)

\* /tradehistory: bot.onText registers the same handler twice, and both run
TradeHistory(c) ==
    /\ lastDone' = Finish(NewTask("tradehistory", c), "history",
                          TradeHistoryReply(c) \o TradeHistoryReply(c))
    /\ UNCHANGED <<now, userRateLimits, supportedAssets, assetsFile, orders, prompts, tasks,
                   calls, nextOrd, nextHex, convLog>>

-----------------------------------------------------------------------------
(* The supported-pairs registry: /addassets, /removeassets, /exchangeinfo *)

\* String.prototype.trim, for the blank the model's texts can hold
RECURSIVE trim(_)
trim(s) ==
    IF Len(s) > 0 /\ Head(s) = " " THEN trim(Tail(s))
    ELSE IF Len(s) > 0 /\ s[Len(s)] = " " THEN trim(SubSeq(s, 1, Len(s) - 1))
    ELSE s

includes(s, ch) == \E i \in 1..Len(s) : s[i] = ch

\* /\/addassets (.+)/ and its like: at least one character follows the command
AssetsCommandMatches(text) == Len(text) > 0

\* match[1].trim().split(',').map(pair => pair.trim()).filter(pair => pair.includes(':'))
AssetPairs(text) ==
    LET pieces == Split(trim(text), ",")
        trimmed == [i \in 1..Len(pieces) |-> trim(pieces[i])]
    IN SelectSeq(trimmed, LAMBDA pair : includes(pair, ":"))

\* const [from, to] = pair.split(':').map(asset => asset.toUpperCase())
PairFrom(pair) == toUpperCase(Part(Split(pair, ":"), 0))
PairTo(pair) == toUpperCase(Part(Split(pair, ":"), 1))

\* !from || !to : the empty string is falsy
Falsy(s) == s = <<>>

Pair(from, to) == [fromAsset |-> from, toAsset |-> to]

isAdminAnyChat(chatId) == TRUE

\* chatId.toString() === ADMIN_CHAT_ID.toString()
isAdmin(chatId) == IntStr(chatId) = IntStr(ADMIN_CHAT_ID)

\* /addassets: binance.supportedAssets.some(...)
exists(assets, from, to) ==
    \E i \in 1..Len(assets) :
        \/ (assets[i].fromAsset = from /\ assets[i].toAsset = to)
        \/ (assets[i].fromAsset = to /\ assets[i].toAsset = from)

\* /removeassets: binance.supportedAssets.findIndex(...); positions count from 1
\* here, and 0 stands for the -1 of "none"
findIndex(assets, from, to) ==
    LET hits == {i \in 1..Len(assets) :
                    \/ (assets[i].fromAsset = from /\ assets[i].toAsset = to)
                    \/ (assets[i].fromAsset = to /\ assets[i].toAsset = from)}
    IN IF hits = {} THEN 0 ELSE CHOOSE i \in hits : \A j \in hits : i <= j

pairInfoAnyPair(assets, from, to) == Len(assets) >= 0

\* /exchangeinfo: binance.supportedAssets.find(...) found an entry
pairInfo(assets, from, to) ==
    \E i \in 1..Len(assets) :
        \/ (assets[i].fromAsset = from /\ assets[i].toAsset = to)
        \/ (assets[i].fromAsset = to /\ assets[i].toAsset = from)

\* the forEach of /addassets: every pair is tested against the list as it was when
\* the command arrived; the new pairs are appended only after the loop
RECURSIVE AddScan(_, _)
AddScan(pairs, assets) ==
    IF pairs = <<>> THEN [newPairs |-> <<>>, existingPairs |-> <<>>]
    ELSE LET from == PairFrom(Head(pairs))
             to == PairTo(Head(pairs))
             rest == AddScan(Tail(pairs), assets)
         IN IF Falsy(from) \/ Falsy(to) THEN rest
            ELSE IF exists(assets, from, to)
            THEN [rest EXCEPT !.existingPairs = <<Pair(from, to)>> \o @]
            ELSE [rest EXCEPT !.newPairs = <<Pair(from, to)>> \o @]

\* the forEach of /removeassets: each found entry is spliced out at once
RECURSIVE RemoveScan(_, _)
RemoveScan(pairs, assets) ==
    IF pairs = <<>> THEN [assets |-> assets, removedPairs |-> <<>>, notFoundPairs |-> <<>>]
    ELSE LET from == PairFrom(Head(pairs))
             to == PairTo(Head(pairs))
             index == findIndex(assets, from, to)
         IN IF Falsy(from) \/ Falsy(to) THEN RemoveScan(Tail(pairs), assets)
            ELSE IF index # 0
            THEN [RemoveScan(Tail(pairs), RemoveAt(assets, index)) EXCEPT
                     !.removedPairs = <<assets[index]>> \o @]
            ELSE [RemoveScan(Tail(pairs), assets) EXCEPT
                     !.notFoundPairs = <<Pair(from, to)>> \o @]

WriteContentChangedOnly(list, changed) == changed

\* JSON.stringify(binance.supportedAssets, null, 4): the whole list
WriteContent(list, changed) == list

\* a handler that is denied or finds no pair in its text
AssetsRejected(kind, c, text, result) ==
    /\ lastDone' = Finish([NewTask(kind, c) EXCEPT !.args = <<text>>], result,
                          <<Msg(c, result, <<>>)>>)
    /\ UNCHANGED <<now, userRateLimits, supportedAssets, assetsFile, orders, prompts, tasks,
                   calls, nextOrd, nextHex, convLog>>

\* /addassets text, up to the call of writeFileAsync
AddAssets(c, text) ==
    /\ AssetsCommandMatches(text)
    /\ IF ~isAdmin(c) THEN AssetsRejected("addassets", c, text, "permission_denied")
       ELSE IF AssetPairs(text) = <<>>
       THEN AssetsRejected("addassets", c, text, "invalid_format")
       ELSE LET scan == AddScan(AssetPairs(text), supportedAssets)
                list == supportedAssets \o scan.newPairs
            IN /\ Len(tasks) < MaxTasks
               /\ supportedAssets' = list
               /\ calls' = Bump("write")
               /\ tasks' = Append(tasks, [NewTask("addassets", c) EXCEPT
                              !.args = <<text>>, !.pc = "write",
                              !.newPairs = scan.newPairs,
                              !.existingPairs = scan.existingPairs,
                              !.content = WriteContent(list, scan.newPairs),
                              !.writeNo = calls.write + 1])
               /\ UNCHANGED <<now, userRateLimits, assetsFile, orders, prompts, nextOrd,
                              nextHex, lastDone, convLog>>

\* /removeassets text, up to the call of writeFileAsync
RemoveAssets(c, text) ==
    /\ AssetsCommandMatches(text)
    /\ IF ~isAdmin(c) THEN AssetsRejected("removeassets", c, text, "permission_denied")
       ELSE IF AssetPairs(text) = <<>>
       THEN AssetsRejected("removeassets", c, text, "invalid_format")
       ELSE LET scan == RemoveScan(AssetPairs(text), supportedAssets)
            IN /\ Len(tasks) < MaxTasks
               /\ supportedAssets' = scan.assets
               /\ calls' = Bump("write")
               /\ tasks' = Append(tasks, [NewTask("removeassets", c) EXCEPT
                              !.args = <<text>>, !.pc = "write",
                              !.removedPairs = scan.removedPairs,
                              !.notFoundPairs = scan.notFoundPairs,
                              !.content = WriteContent(scan.assets, scan.removedPairs),
                              !.writeNo = calls.write + 1])
               /\ UNCHANGED <<now, userRateLimits, assetsFile, orders, prompts, nextOrd,
                              nextHex, lastDone, convLog>>

\* catch block of /addassets and /removeassets
AssetsFailed(t, message) ==
    lastDone' = Finish(t, "failed",
                       <<Msg(t.chat, "convert_failed", <<message>>)>>
                       \o sendErrorNotification(message))

\* writeFileAsync rejects: the file is left as it was
WriteFail(i) ==
    /\ tasks[i].pc = "write"
    /\ AssetsFailed([tasks[i] EXCEPT !.resp = "throw"], "write failed")
    /\ tasks' = RemoveAt(tasks, i)
    /\ UNCHANGED <<now, userRateLimits, supportedAssets, assetsFile, orders, prompts, calls,
                   nextOrd, nextHex, convLog>>

\* responseMessage === '' : no pair of the command was well formed
EmptyResponse(t) ==
    t.newPairs = <<>> /\ t.existingPairs = <<>> /\ t.removedPairs = <<>> /\ t.notFoundPairs = <<>>

\* writeFileAsync resolves: the file holds the text the handler passed, and the
\* handler answers the admin; Telegram refuses a message with an empty text, which
\* takes the handler to its catch block
WriteDone(i) ==
    LET t == [tasks[i] EXCEPT !.resp = "ok"] IN
    /\ tasks[i].pc = "write"
    /\ assetsFile' = t.content
    /\ IF EmptyResponse(t)
       THEN AssetsFailed(t, "message text is empty")
       ELSE lastDone' = Finish(t, "ack",
                               <<Msg(t.chat, "assets_response", <<>>)>>
                               \o sendPersistentMenu(t.chat))
    /\ tasks' = RemoveAt(tasks, i)
    /\ UNCHANGED <<now, userRateLimits, supportedAssets, orders, prompts, calls, nextOrd,
                   nextHex, convLog>>

\* outcomes of binance.getExchangeInfo() and of the search in info.pairs
InfoOutcomes == {"throw", "nopair", "pair"}

\* the loop of /exchangeinfo; rs[k] is the outcome of the k-th request
RECURSIVE InfoScan(_, _, _, _)
InfoScan(pairs, assets, rs, k) ==
    IF pairs = <<>> THEN [exchangeInfoList |-> <<>>, notFoundPairs |-> <<>>, requests |-> 0]
    ELSE LET from == PairFrom(Head(pairs))
             to == PairTo(Head(pairs))
         IN IF Falsy(from) \/ Falsy(to) THEN InfoScan(Tail(pairs), assets, rs, k)
            ELSE IF pairInfo(assets, from, to)
            THEN LET rest == InfoScan(Tail(pairs), assets, rs, k + 1)
                 IN IF rs[k] = "pair"
                    THEN [rest EXCEPT !.exchangeInfoList = <<Pair(from, to)>> \o @,
                                      !.requests = @ + 1]
                    ELSE [rest EXCEPT !.notFoundPairs = <<Pair(from, to)>> \o @,
                                      !.requests = @ + 1]
            ELSE [InfoScan(Tail(pairs), assets, rs, k) EXCEPT
                     !.notFoundPairs = <<Pair(from, to)>> \o @]

\* /exchangeinfo text
ExchangeInfo(c, text, rs) ==
    /\ AssetsCommandMatches(text)
    /\ IF AssetPairs(text) = <<>>
       THEN AssetsRejected("exchangeinfo", c, text, "invalid_format")
       ELSE LET scan == InfoScan(AssetPairs(text), supportedAssets, rs, 1)
            IN /\ calls' = [calls EXCEPT !.info = @ + scan.requests]
               /\ lastDone' = Finish([NewTask("exchangeinfo", c) EXCEPT
                                         !.args = <<text>>,
                                         !.outcomes = [k \in 1..scan.requests |->
                                                         IF rs[k] = "pair" THEN "pair"
                                                         ELSE "none"],
                                         !.exchangeInfoList = scan.exchangeInfoList,
                                         !.notFoundPairs = scan.notFoundPairs],
                                     "info",
                                     <<Msg(c, "exchange_info", <<>>)>> \o sendPersistentMenu(c))
               /\ UNCHANGED <<now, userRateLimits, supportedAssets, assetsFile, orders,
                              prompts, tasks, nextOrd, nextHex, convLog>>

-----------------------------------------------------------------------------
(* The remaining handlers: /help, /exchangeinfo without pairs, /assetinfo, the  *)
(* two listeners of every message, and a text no pattern matches                *)

\* /help
Help(c) ==
    /\ lastDone' = Finish(NewTask("help", c), "help",
                          <<Msg(c, "help", <<>>)>> \o sendPersistentMenu(c))
    /\ UNCHANGED <<now, userRateLimits, supportedAssets, assetsFile, orders, prompts, tasks,
                   calls, nextOrd, nextHex, convLog>>

\* /exchangeinfo with nothing after it: one request; r is what it returned
ExchangeInfoAll(c, r) ==
    LET message == IF r = "throw" THEN "exchange info request failed"
                   ELSE "no exchange info"
    IN /\ calls' = Bump("info")
       /\ lastDone' =
            IF r = "pair"
            THEN Finish([NewTask("exchangeinfo_all", c) EXCEPT !.resp = r], "info",
                        <<Msg(c, "exchange_info", <<>>)>> \o sendPersistentMenu(c))
            ELSE Finish([NewTask("exchangeinfo_all", c) EXCEPT !.resp = r], "failed",
                        <<Msg(c, "convert_failed", <<message>>)>>
                        \o sendErrorNotification(message))
       /\ UNCHANGED <<now, userRateLimits, supportedAssets, assetsFile, orders, prompts,
                      tasks, nextOrd, nextHex, convLog>>

\* assetsStr.split(',').map(asset => asset.trim().toUpperCase()).filter(asset => asset.length > 0)
AssetNames(text) ==
    LET pieces == Split(trim(text), ",")
        upper == [i \in 1..Len(pieces) |-> toUpperCase(trim(pieces[i]))]
    IN SelectSeq(upper, LAMBDA asset : Len(asset) > 0)

\* outcomes of binance.getAssetInfo() and of the search in info.assets
AssetOutcomes == {"throw", "noasset", "asset"}

RECURSIVE AssetScanNoCatch(_, _, _)
AssetScanNoCatch(assets, rs, k) ==
    IF k > Len(assets)
    THEN [assetInfoList |-> <<>>, notFoundAssets |-> <<>>, requests |-> 0]
    ELSE IF rs[k] = "throw"
    THEN [assetInfoList |-> <<>>, notFoundAssets |-> <<>>, requests |-> 1]
    ELSE LET rest == AssetScanNoCatch(assets, rs, k + 1)
         IN IF rs[k] = "asset"
            THEN [rest EXCEPT !.assetInfoList = <<assets[k]>> \o @, !.requests = @ + 1]
            ELSE [rest EXCEPT !.notFoundAssets = <<assets[k]>> \o @, !.requests = @ + 1]

\* the loop of /assetinfo; rs[k] is the outcome of the request for the k-th asset
RECURSIVE AssetScan(_, _, _)
AssetScan(assets, rs, k) ==
    IF k > Len(assets)
    THEN [assetInfoList |-> <<>>, notFoundAssets |-> <<>>, requests |-> 0]
    ELSE LET rest == AssetScan(assets, rs, k + 1)
         IN IF rs[k] = "asset"
            THEN [rest EXCEPT !.assetInfoList = <<assets[k]>> \o @, !.requests = @ + 1]
            ELSE [rest EXCEPT !.notFoundAssets = <<assets[k]>> \o @, !.requests = @ + 1]

\* the reply of one of the two registered /assetinfo handlers
AssetInfoReply(c, assets) ==
    IF assets = <<>> THEN <<Msg(c, "invalid_format", <<>>)>>
    ELSE <<Msg(c, "asset_info", <<>>)>> \o sendPersistentMenu(c)

\* /assetinfo text: bot.onText registers the same handler twice and both run,
\* each with its own requests; rs1 and rs2 are the outcomes each of them meets
AssetInfo(c, text, rs1, rs2) ==
    LET assets == AssetNames(text)
        first == AssetScan(assets, rs1, 1)
        second == AssetScan(assets, rs2, 1)
    IN /\ AssetsCommandMatches(text)
       /\ calls' = [calls EXCEPT !.info = @ + first.requests + second.requests]
       /\ lastDone' = Finish([NewTask("assetinfo", c) EXCEPT
                                 !.args = <<text>>,
                                 !.assets = assets,
                                 !.outcomes = <<rs1, rs2>>,
                                 !.assetInfoList = <<first.assetInfoList, second.assetInfoList>>,
                                 !.notFoundAssets = <<first.notFoundAssets, second.notFoundAssets>>],
                             IF assets = <<>> THEN "invalid_format" ELSE "info",
                             AssetInfoReply(c, assets) \o AssetInfoReply(c, assets))
       /\ UNCHANGED <<now, userRateLimits, supportedAssets, assetsFile, orders, prompts,
                      tasks, nextOrd, nextHex, convLog>>

\* the texts of the reply keyboard, and a text that is neither one of them nor a command
MenuLabels == {"convert_now", "view_status", "personal_info", "help"}

\* the first listener of 'message' (the switch on the menu labels)
MenuListener(c, text) ==
    IF text \in MenuLabels THEN <<Msg(c, "menu_reply", <<text>>)>>
    ELSE <<Msg(c, "unknown_command", <<>>)>>

\* the second listener of 'message'
UnknownListener(c, text) ==
    IF text \in MenuLabels THEN <<>>
    ELSE <<Msg(c, "unknown_command", <<>>)>> \o sendPersistentMenu(c)

\* a message whose text does not start with '/': both listeners run
Message(c, text) ==
    /\ lastDone' = Finish([NewTask("message", c) EXCEPT !.args = <<text>>], "text",
                          MenuListener(c, text) \o UnknownListener(c, text))
    /\ UNCHANGED <<now, userRateLimits, supportedAssets, assetsFile, orders, prompts, tasks,
                   calls, nextOrd, nextHex, convLog>>

\* a text that starts with '/' and that no registered pattern matches, such as
\* /setlang en: no onText handler runs and both listeners of 'message' return
Unmatched(c, text) ==
    /\ lastDone' = Finish([NewTask("unmatched", c) EXCEPT !.args = <<text>>], "ignored", <<>>)
    /\ UNCHANGED <<now, userRateLimits, supportedAssets, assetsFile, orders, prompts, tasks,
                   calls, nextOrd, nextHex, convLog>>

\* process.on('uncaughtException'): the admin is told and the process exits
uncaughtException(what) == sendErrorNotification(what)

\* the catch block of /placeorder when its INSERT of the failed row fails.  db.run
\* is called without a callback, so the handler goes on as if the row were stored
\* and returns; sqlite3 emits the error as an 'error' event on a Statement nobody
\* listens to, which throws outside every handler and ends the process
PlaceFailedInsertFails(i, r) ==
    LET t == [tasks[i] EXCEPT !.resp = r]
        message == IF r = "throw" THEN "limit order request failed"
                   ELSE "limit order not created"
    IN /\ t.pc = "place"
       /\ ~HasOrderId(r)
       /\ nextHex' = nextHex + 1
       /\ lastDone' = Finish([t EXCEPT !.rowId = HexId(nextHex + 1),
                                       !.escaped = "uncaughtException"],
                             "failed",
                             <<Msg(t.chat, "convert_failed", <<message>>)>>
                             \o sendErrorNotification(message)
                             \o sendPersistentMenu(t.chat)
                             \o uncaughtException("SQLITE_ERROR"))
       /\ tasks' = <<>>
       /\ UNCHANGED <<now, userRateLimits, supportedAssets, assetsFile, orders, prompts,
                      calls, nextOrd, convLog>>

\* instantConvert when the accept call returned an order id, the completed row
\* was inserted, and a message sent inside the try block is refused by Telegram:
\* the success message (step "success") or the menu (step "menu").  The rejection
\* is caught by the same catch block as an exchange failure
AcceptSendFails(i, step) ==
    LET orderId == ExId(nextOrd + 1)
        quoteId == HexId(nextHex + 1)
        t == [tasks[i] EXCEPT !.resp = "id", !.exchId = orderId]
        message == "message not sent"
        sent == IF step = "menu" THEN <<Msg(t.chat, "convert_success", <<>>)>> ELSE <<>>
    IN /\ t.pc = "accept"
       /\ nextOrd' = nextOrd + 1
       /\ nextHex' = nextHex + 1
       /\ orders' = InsertRow(InsertRow(orders, CompletedRow(t, orderId)),
                              FailedRow(t, quoteId, message))
       /\ lastDone' = Finish([t EXCEPT !.rowId = quoteId], "failed",
                             sent \o <<Msg(t.chat, "convert_failed", <<message>>)>>
                             \o sendErrorNotification(message)
                             \o sendPersistentMenu(t.chat) \o sendPersistentMenu(t.chat))
       /\ tasks' = RemoveAt(tasks, i)
       /\ UNCHANGED <<now, userRateLimits, supportedAssets, assetsFile, prompts, calls, convLog>>

\* the clock advances
Tick ==
    /\ \E t \in Times : t > now /\ now' = t
    /\ UNCHANGED <<userRateLimits, supportedAssets, assetsFile, orders, prompts, tasks, calls,
                   nextOrd, nextHex, lastDone, nCmds, convLog>>

-----------------------------------------------------------------------------
(* Inputs *)

FromTokens == {<<"a">>, <<"B">>}
ToTokens == {<<"B">>, <<"C", "_">>}
AmountTokens == {<<"0">>, <<"0", ".", "5">>, <<"-", "5">>}

\* the registry file as loaded at startup by loadSupportedAssets
InitialAssets ==
    <<[fromAsset |-> <<"A">>, toAsset |-> <<"B">>],
      [fromAsset |-> <<"C", "_">>, toAsset |-> <<"A">>]>>

Init ==
    /\ now = 0
    /\ userRateLimits = <<>>
    /\ supportedAssets = InitialAssets
    /\ assetsFile = InitialAssets
    /\ orders = {}
    /\ prompts = {}
    /\ tasks = <<>>
    /\ calls = [quote |-> 0, accept |-> 0, place |-> 0, cancel |-> 0, write |-> 0, info |-> 0,
                load |-> 1]
    /\ nextOrd = 0
    /\ nextHex = 0
    /\ lastDone = NewTask("none", 0)
    /\ nCmds = 0
    /\ convLog = [c \in Chats |-> <<>>]

Delivered(bound) == nCmds < bound /\ nCmds' = nCmds + 1

-----------------------------------------------------------------------------
(* The order lifecycle *)

PriceTokens == {<<"0">>, <<"5">>}
Users == Chats \ {ADMIN_CHAT_ID}     \* chats that convert and place orders
Responses == {"throw", "noid", "id"}

\* ids a user can name: those in the store or issued, and one never issued
KnownIds == {ExId(n) : n \in 1..(nextOrd + 1)} \cup {HexId(n) : n \in 1..nextHex}

DoConvert ==
    \E c \in Users, f \in FromTokens, t \in ToTokens, a \in AmountTokens :
        Delivered(MaxCmds) /\ Convert(c, f, t, a)

DoCallbackConfirm == \E p \in prompts : Delivered(MaxCmds) /\ CallbackConfirm(p)

DoCallbackCancel == \E p \in prompts : Delivered(MaxCmds) /\ CallbackCancel(p)

DoPlaceOrder ==
    \E c \in Users, f \in FromTokens, t \in ToTokens, a \in AmountTokens, p \in PriceTokens :
        Delivered(MaxCmds) /\ PlaceOrder(c, f, t, a, p)

DoCancelOrder == \E c \in Chats, id \in KnownIds : Delivered(MaxCmds) /\ CancelOrder(c, id)

DoQuoteResp ==
    \E i \in 1..Len(tasks), r \in {"throw", "noid"} \cup QuoteIds :
        QuoteResp(i, r) /\ UNCHANGED nCmds

DoAcceptResp == \E i \in 1..Len(tasks), r \in Responses : AcceptResp(i, r) /\ UNCHANGED nCmds

DoPlaceResp == \E i \in 1..Len(tasks), r \in Responses : PlaceResp(i, r) /\ UNCHANGED nCmds

DoCancelResp == \E i \in 1..Len(tasks), r \in Responses : CancelResp(i, r) /\ UNCHANGED nCmds

Next ==
    \/ DoConvert
    \/ DoCallbackConfirm
    \/ DoCallbackCancel
    \/ DoPlaceOrder
    \/ DoCancelOrder
    \/ DoQuoteResp
    \/ DoAcceptResp
    \/ DoPlaceResp
    \/ DoCancelResp

Spec == Init /\ [][Next]_vars

-----------------------------------------------------------------------------
(* The rate limiter of one chat *)

RateChats == {1}
RateAmounts == {<<"0", ".", "5">>}

RateStart == \E c \in RateChats : Delivered(MaxRateCmds) /\ Start(c)

RateConvert ==
    \E c \in RateChats, t \in {<<"B">>, <<"a">>}, a \in RateAmounts :
        Delivered(MaxRateCmds) /\ Convert(c, <<"a">>, t, a)

NextRate == RateStart \/ RateConvert \/ Tick

SpecRate == Init /\ [][NextRate]_vars

-----------------------------------------------------------------------------
(* The order store: limit orders placed, cancelled and looked up *)

MaxStoreCmds == 4     \* inbound updates in a run of the order-store specification

StorePlaceOrder ==
    \E c \in Chats, p \in PriceTokens :
        Delivered(MaxStoreCmds) /\ PlaceOrder(c, <<"a">>, <<"B">>, <<"0", ".", "5">>, p)

StoreCancelOrder ==
    \E c \in Chats, id \in KnownIds : Delivered(MaxStoreCmds) /\ CancelOrder(c, id)

StoreStatus == \E c \in Chats, id \in KnownIds : Delivered(MaxStoreCmds) /\ Status(c, id)

StoreTradeHistory == \E c \in Chats : Delivered(MaxStoreCmds) /\ TradeHistory(c)

NextStore ==
    \/ StorePlaceOrder
    \/ StoreCancelOrder
    \/ StoreStatus
    \/ StoreTradeHistory
    \/ DoPlaceResp
    \/ DoCancelResp

SpecStore == Init /\ [][NextStore]_vars

-----------------------------------------------------------------------------
(* The registry under admin commands *)

MaxRegCmds == 3       \* inbound updates in a run of the registry specification

\* texts after the command word: one pair, a pair in both directions, a pair of the
\* initial registry, a pair without a second symbol, a text without a pair
AssetsTexts ==
    { <<"b", ":", "c">>,
      <<"b", ":", "c", ",", " ", "c", ":", "b">>,
      <<"b", ":", "a">>,
      <<"b", ":">>,
      <<"c">> }

InfoTexts == { <<"b", ":", "c", ",", " ", "c", ":", "b">>, <<"b", ":", "a">> }

\* a chat other than the admin's tries one text
TextsOf(c) == IF c = ADMIN_CHAT_ID THEN AssetsTexts ELSE {<<"b", ":", "c">>}

RegAddAssets ==
    \E c \in Chats : \E text \in TextsOf(c) : Delivered(MaxRegCmds) /\ AddAssets(c, text)

RegRemoveAssets ==
    \E c \in Chats : \E text \in TextsOf(c) : Delivered(MaxRegCmds) /\ RemoveAssets(c, text)

RegExchangeInfo ==
    \E c \in Users, text \in InfoTexts :
        \E rs \in [1..Len(AssetPairs(text)) -> InfoOutcomes] :
            Delivered(MaxRegCmds) /\ ExchangeInfo(c, text, rs)

RegConvert ==
    \E c \in Users, f \in {<<"b">>, <<"c">>}, t \in {<<"b">>, <<"c">>} :
        f # t /\ Delivered(MaxRegCmds) /\ Convert(c, f, t, <<"0", ".", "5">>)

RegWriteFail == \E i \in 1..Len(tasks) : WriteFail(i) /\ UNCHANGED nCmds

RegWriteDone == \E i \in 1..Len(tasks) : WriteDone(i) /\ UNCHANGED nCmds

NextRegistry ==
    \/ RegAddAssets
    \/ RegRemoveAssets
    \/ RegExchangeInfo
    \/ RegConvert
    \/ RegWriteFail
    \/ RegWriteDone

SpecRegistry == Init /\ [][NextRegistry]_vars

-----------------------------------------------------------------------------
(* Every handler the bot registers, one chat of a user and the admin's *)

MaxDispatchCmds == 2  \* inbound updates in a run of the dispatch specification

\* the process is alive: no error has reached process.on('uncaughtException')
Running == lastDone.escaped = "none"

Handled == Running /\ Delivered(MaxDispatchCmds)

AssetTexts == { <<"a", ",", " ", "b">>, <<",">> }

MessageTexts == MenuLabels \cup {"hello"}

UnmatchedTexts == { <<"/", "s", "e", "t", "l", "a", "n", "g", " ", "e", "n">> }

NextDispatch ==
    \/ \E c \in Chats : Handled /\ Start(c)
    \/ \E c \in Users : Handled /\ Help(c)
    \/ \E c \in Users : Handled /\ Convert(c, <<"a">>, <<"B">>, <<"0", ".", "5">>)
    \/ \E p \in prompts : Handled /\ CallbackConfirm(p)
    \/ \E p \in prompts : Handled /\ CallbackCancel(p)
    \/ \E c \in Users :
          Handled /\ PlaceOrder(c, <<"a">>, <<"B">>, <<"0", ".", "5">>, <<"5">>)
    \/ \E c \in Users, id \in KnownIds : Handled /\ CancelOrder(c, id)
    \/ \E c \in Users, id \in KnownIds : Handled /\ Status(c, id)
    \/ \E c \in Users : Handled /\ TradeHistory(c)
    \/ Handled /\ AddAssets(ADMIN_CHAT_ID, <<"b", ":", "c">>)
    \/ Handled /\ RemoveAssets(ADMIN_CHAT_ID, <<"b", ":", "a">>)
    \/ \E c \in Users : \E rs \in [1..1 -> InfoOutcomes] :
          Handled /\ ExchangeInfo(c, <<"b", ":", "a">>, rs)
    \/ \E c \in Users, r \in InfoOutcomes : Handled /\ ExchangeInfoAll(c, r)
    \/ \E c \in Users, text \in AssetTexts :
          \E rs1 \in [1..Len(AssetNames(text)) -> AssetOutcomes] :
          \E rs2 \in [1..Len(AssetNames(text)) -> {"throw", "asset"}] :
              Handled /\ AssetInfo(c, text, rs1, rs2)
    \/ \E c \in Users, text \in MessageTexts : Handled /\ Message(c, text)
    \/ \E c \in Users, text \in UnmatchedTexts : Handled /\ Unmatched(c, text)
    \/ \E i \in 1..Len(tasks), r \in {"throw", "noid"} \cup QuoteIds :
          QuoteResp(i, r) /\ UNCHANGED nCmds
    \/ \E i \in 1..Len(tasks), r \in Responses : AcceptResp(i, r) /\ UNCHANGED nCmds
    \/ \E i \in 1..Len(tasks), r \in Responses : PlaceResp(i, r) /\ UNCHANGED nCmds
    \/ \E i \in 1..Len(tasks), r \in Responses :
          PlaceFailedInsertFails(i, r) /\ UNCHANGED nCmds
    \/ \E i \in 1..Len(tasks), r \in Responses : CancelResp(i, r) /\ UNCHANGED nCmds
    \/ \E i \in 1..Len(tasks) : WriteFail(i) /\ UNCHANGED nCmds
    \/ \E i \in 1..Len(tasks) : WriteDone(i) /\ UNCHANGED nCmds

SpecDispatch == Init /\ [][NextDispatch]_vars

-----------------------------------------------------------------------------
(* A prompt, the admin's /removeassets and the tap on the prompt's button *)

MaxConfirmCmds == 3   \* inbound updates in a run of the confirm specification

NextConfirm ==
    \/ \E c \in Users, t \in {<<"B">>, <<"c">>} :
          Delivered(MaxConfirmCmds) /\ Convert(c, <<"a">>, t, <<"0", ".", "5">>)
    \/ \E text \in {<<"b", ":", "a">>, <<"a", ":", "c", "_">>} :
          Delivered(MaxConfirmCmds) /\ RemoveAssets(ADMIN_CHAT_ID, text)
    \/ \E p \in prompts : Delivered(MaxConfirmCmds) /\ CallbackConfirm(p)
    \/ DoQuoteResp
    \/ DoAcceptResp
    \/ \E i \in 1..Len(tasks), step \in {"success", "menu"} :
          AcceptSendFails(i, step) /\ UNCHANGED nCmds
    \/ RegWriteFail
    \/ RegWriteDone

SpecConfirm == Init /\ [][NextConfirm]_vars

-----------------------------------------------------------------------------
(* The text of rich-text replies *)

\* the characters escapeMarkdownV2 puts a backslash before (bot.js line 16), but
\* for the backquote, which no text of the model holds
Reserved ==
    {"_", "*", "[", "]", "(", ")", "~", ">", "#", "+", "-", "=", "|", "{", "}",
     ".", "!", "\\"}

\* text.replace(reserved, '\\$1'): a backslash before every reserved character
RECURSIVE escapeMarkdownV2(_)
escapeMarkdownV2(text) ==
    IF text = <<>> THEN <<>>
    ELSE (IF Head(text) \in Reserved THEN <<"\\", Head(text)>> ELSE <<Head(text)>>)
         \o escapeMarkdownV2(Tail(text))

\* the fixed text in front of the dynamic text: a bold heading and a line break
Heading == <<"*", "h", ":", "*", "\n">>

\* the ways the handlers build the text they send with parse_mode MarkdownV2
Forms == {"catch", "catch_addassets", "success", "assets_response"}

\* the text sent for a piece of dynamic text d:
\*   catch            escapeMarkdownV2(`...${escapeMarkdownV2(error.message)}`)
\*   catch_addassets  `...${escapeMarkdownV2(error.message)}`
\*   success          escapeMarkdownV2(`...${acceptResult.orderId}`)
\*   assets_response  `...${addedPairs}`
ReplyText(form, d) ==
    CASE form = "catch" -> escapeMarkdownV2(Heading \o escapeMarkdownV2(d))
      [] form = "catch_addassets" -> Heading \o escapeMarkdownV2(d)
      [] form = "success" -> escapeMarkdownV2(Heading \o d)
      [] form = "assets_response" -> Heading \o d

\* a handler sends a reply built in one of these ways
Reply(c, form, d) ==
    /\ lastDone' = Finish([NewTask("reply", c) EXCEPT !.args = <<d>>, !.data = ReplyText(form, d)],
                          form, <<>>)
    /\ UNCHANGED <<now, userRateLimits, supportedAssets, assetsFile, orders, prompts, tasks,
                   calls, nextOrd, nextHex, convLog>>

MaxTextLen == 2       \* characters of a dynamic text
MaxReplies == 2       \* replies in a run of the reply-text specification

\* dynamic texts: error messages, order ids, asset symbols
DynamicTexts == UNION {[1..n -> {"e", "1", ".", "_", "\\"}] : n \in 0..MaxTextLen}

NextEscape ==
    \E c \in Users, form \in Forms, d \in DynamicTexts :
        Delivered(MaxReplies) /\ Reply(c, form, d)

SpecEscape == Init /\ [][NextEscape]_vars

-----------------------------------------------------------------------------
(* Startup: main.js loads the registry file, then registers the handlers *)

MaxStartupCmds == 2   \* inbound updates in a run of the startup specification

TARGET_CHAT_ID == 2

\* what the registry file may hold when the process starts: the pairs of
\* InitialAssets, or a pair written in lower case
FileContents ==
    { InitialAssets, <<[fromAsset |-> <<"a">>, toAsset |-> <<"b">>]>> }

\* the process has started: binance.supportedAssets is [] and no handler is registered
InitStartup ==
    /\ now = 0
    /\ userRateLimits = <<>>
    /\ supportedAssets = <<>>
    /\ assetsFile \in FileContents
    /\ orders = {}
    /\ prompts = {}
    /\ tasks = <<>>
    /\ calls = [quote |-> 0, accept |-> 0, place |-> 0, cancel |-> 0, write |-> 0, info |-> 0,
                load |-> 0]
    /\ nextOrd = 0
    /\ nextHex = 0
    /\ lastDone = NewTask("none", 0)
    /\ nCmds = 0
    /\ convLog = [c \in Chats |-> <<>>]

\* the async function of main.js: initializeSupportedAssets, and when the file was
\* read and parsed, botHandler.initialize and sendStartupMessage; when not, the
\* admin is told and the process exits.  JSON.parse keeps the symbols as written
Startup(ok) ==
    /\ lastDone.kind = "none"
    /\ calls.load = 0
    /\ IF ok
       THEN /\ supportedAssets' = assetsFile
            /\ calls' = Bump("load")
            /\ lastDone' = Finish(NewTask("startup", 0), "online",
                                  <<Msg(TARGET_CHAT_ID, "online", <<>>)>>)
       ELSE /\ lastDone' = Finish([NewTask("startup", 0) EXCEPT !.escaped = "exit"], "exit",
                                  sendErrorNotification("load failed"))
            /\ UNCHANGED <<supportedAssets, calls>>
    /\ UNCHANGED <<now, userRateLimits, assetsFile, orders, prompts, tasks, nextOrd, nextHex,
                   convLog>>

RegisteredAtOnce == calls.load >= 0

\* botHandler.initialize has run: it is called after initializeSupportedAssets returned
Registered == calls.load > 0

Ready == Registered /\ Running /\ Delivered(MaxStartupCmds)

Spellings == {<<"a">>, <<"B">>}

NextStartup ==
    \/ \E ok \in BOOLEAN : Startup(ok) /\ UNCHANGED nCmds
    \/ \E c \in Users, f \in Spellings, t \in Spellings :
          Ready /\ Convert(c, f, t, <<"0", ".", "5">>)
    \/ \E c \in Users, f \in Spellings, t \in Spellings :
          Ready /\ PlaceOrder(c, f, t, <<"0", ".", "5">>, <<"5">>)
    \/ \E text \in {<<"a", ":", "b">>, <<"B", ":", "A">>} :
          Ready /\ AddAssets(ADMIN_CHAT_ID, text)
    \/ \E text \in {<<"a", ":", "b">>, <<"B", ":", "A">>} :
          Ready /\ RemoveAssets(ADMIN_CHAT_ID, text)
    \/ DoPlaceResp
    \/ RegWriteFail
    \/ RegWriteDone

SpecStartup == InitStartup /\ [][NextStartup]_vars

-----------------------------------------------------------------------------
(* The rate limiter of two chats *)

MaxIsoCmds == 12      \* inbound updates in a run of the two-chat specification
MaxOtherCmds == 1     \* of them, /convert commands of the admin's chat

\* the /start that creates the entry of a user's chat, the /convert commands of
\* that chat and of the admin's chat, and the clock up to one tick past the window
NextIsolation ==
    \/ \E c \in Users :
          c \notin DOMAIN userRateLimits /\ Delivered(MaxIsoCmds) /\ Start(c)
    \/ \E c \in Users :
          Delivered(MaxIsoCmds) /\ Convert(c, <<"a">>, <<"B">>, <<"0", ".", "5">>)
    \/ /\ Len(convLog[ADMIN_CHAT_ID]) < MaxOtherCmds
       /\ Delivered(MaxIsoCmds)
       /\ Convert(ADMIN_CHAT_ID, <<"a">>, <<"B">>, <<"0", ".", "5">>)
    \/ Tick /\ now' <= RATE_LIMIT_WINDOW_MS + 1

SpecIsolation == Init /\ [][NextIsolation]_vars

-----------------------------------------------------------------------------
(* The order store when the exchange repeats an order id *)

\* the limit-order request returns an order id that a row already carries: the
\* INSERT is refused (orderId is the PRIMARY KEY) and the table stays as it was;
\* run() was called without a callback, so the handler goes on to its reply, and
\* the error, emitted on a Statement nobody listens to, ends the process
PlaceRespRepeats(i, orderId) ==
    LET t == [tasks[i] EXCEPT !.resp = "id"] IN
    /\ t.pc = "place"
    /\ \E r \in orders : r.orderId = orderId
    /\ orders' = InsertRow(orders, PendingRow(t, orderId))
    /\ lastDone' = Finish([t EXCEPT !.rowId = orderId, !.exchId = orderId,
                                    !.escaped = "uncaughtException"],
                          "pending",
                          <<Msg(t.chat, "order_placed", <<>>)>>
                          \o sendPersistentMenu(t.chat)
                          \o uncaughtException("SQLITE_CONSTRAINT"))
    /\ tasks' = <<>>
    /\ UNCHANGED <<now, userRateLimits, supportedAssets, assetsFile, prompts, calls, nextOrd,
                   nextHex, convLog>>

NextIntegrity ==
    \/ \E c \in Chats :
          /\ Running /\ Delivered(MaxStoreCmds)
          /\ PlaceOrder(c, <<"a">>, <<"B">>, <<"0", ".", "5">>, <<"5">>)
    \/ \E c \in Chats, id \in KnownIds :
          Running /\ Delivered(MaxStoreCmds) /\ CancelOrder(c, id)
    \/ DoPlaceResp
    \/ DoCancelResp
    \/ \E i \in 1..Len(tasks), id \in {ExId(n) : n \in 1..nextOrd} :
          PlaceRespRepeats(i, id) /\ UNCHANGED nCmds

SpecIntegrity == Init /\ [][NextIntegrity]_vars

-----------------------------------------------------------------------------
(* What the claims speak about *)

\* the handler invocations a state records: the suspended ones and the last that returned
Invocations == {tasks[i] : i \in 1..Len(tasks)} \cup {lastDone}

\* a handler returns in this step
Returned == lastDone'.seq # lastDone.seq

Sent(t, to, kind) == \E i \in 1..Len(t.out) : t.out[i].to = to /\ t.out[i].kind = kind

ConfirmText(fromAsset, toAsset, amountText) ==
    <<"confirm", "_", "convert", "_">> \o fromAsset \o <<"_">> \o toAsset \o <<"_">> \o amountText

\* C1: after a confirm callback whose quote carried a quoteId and whose accept call
\* returned order id o has been handled, the store holds a 'completed' row with
\* orderId o, the chat of the callback and the from/to/amount fields of the callback
\* data (for data of five fields the row spells the data back); and a 'completed'
\* row appears only in the step in which such a handler returns, with the id the
\* accept call returned.
C1_State ==
    (lastDone.kind = "confirm" /\ lastDone.resp = "id") =>
        \E r \in orders :
            LET parts == Split(lastDone.data, "_") IN
            /\ r.orderId = lastDone.exchId
            /\ r.chatId = lastDone.chat
            /\ r.status = "completed"
            /\ r.fromAsset = Part(parts, 2)
            /\ r.toAsset = Part(parts, 3)
            /\ r.amount = parseFloat(Part(parts, 4))
            /\ (Len(parts) = 5 =>
                  lastDone.data = ConfirmText(r.fromAsset, r.toAsset, NumberToString(r.amount)))

C1_Action ==
    \A r \in orders' \ orders :
        r.status = "completed" =>
            /\ Returned
            /\ lastDone'.kind = "confirm"
            /\ lastDone'.quoteResp \in QuoteIds
            /\ lastDone'.resp = "id"
            /\ r.orderId = lastDone'.exchId

C1_CompletedRow == []C1_State /\ [][C1_Action]_vars

C1_Witness ==
    /\ lastDone.kind = "confirm" /\ lastDone.resp = "id" /\ lastDone.chat = 2
    /\ lastDone.data = ConfirmText(<<"A">>, <<"B">>, <<"0", ".", "5">>)
    /\ \E r \in orders : /\ r.orderId = lastDone.exchId /\ r.status = "completed"
                         /\ r.fromAsset = <<"A">> /\ r.toAsset = <<"B">> /\ r.amount = 50

\* C2: every handled confirm callback has issued exactly one quote request and at
\* most one accept request; an accept request was issued only after the quote
\* carried a quoteId and was given exactly that quoteId; a quote without quoteId (or
\* a quote call that threw) is followed by no accept request.
C2_OneQuoteOneAccept ==
    /\ \A t \in Invocations :
          t.kind = "confirm" =>
            /\ t.quoteCalls = 1
            /\ t.acceptCalls <= 1
            /\ (t.acceptCalls = 1 => (t.quoteResp \in QuoteIds /\ t.acceptArg = t.quoteResp))
            /\ (t.quoteResp \notin QuoteIds => t.acceptCalls = 0)
    /\ calls.accept <= calls.quote
    /\ calls.quote <= nCmds

C2_Witness ==
    /\ lastDone.kind = "confirm" /\ lastDone.acceptCalls = 1 /\ lastDone.acceptArg = "q2"
    /\ \E t \in Invocations : t.kind = "confirm" /\ t.pc = "quote"

\* C3: when a step of the Instant Conversion failed (the quote call threw or carried
\* no quoteId, the accept call threw or returned no orderId), the handler has inserted
\* exactly one row, with status 'failed', a locally generated id, the requesting chat
\* and a non-null error text, and has sent a failure message to the user and an error
\* notification to the admin.
ConfirmFailed(t) ==
    /\ t.kind = "confirm" /\ t.pc = "done"
    /\ (t.quoteResp \in {"throw", "noid"} \/ t.resp \in {"throw", "noid"})

C3_State ==
    ConfirmFailed(lastDone) =>
        /\ lastDone.rowId.src = "local"
        /\ \E r \in orders : /\ r.orderId = lastDone.rowId
                             /\ r.status = "failed"
                             /\ r.chatId = lastDone.chat
                             /\ r.error # "NULL"
        /\ Sent(lastDone, lastDone.chat, "convert_failed")
        /\ Sent(lastDone, ADMIN_CHAT_ID, "admin_error")

C3_Action ==
    (Returned /\ ConfirmFailed(lastDone')) =>
        /\ orders \subseteq orders'
        /\ Cardinality(orders' \ orders) = 1
        /\ \A r \in orders' \ orders : r.orderId = lastDone'.rowId /\ r.status = "failed"

C3_FailedRow == []C3_State /\ [][C3_Action]_vars

C3_Witness ==
    /\ ConfirmFailed(lastDone) /\ lastDone.resp = "noid"
    /\ \E r \in orders : r.orderId = lastDone.rowId /\ r.status = "failed"

\* number of /convert commands of the log handled in the window of entry i, up to i
WindowOrdinal(log, i) == Cardinality({j \in 1..i : log[j].ws = log[i].ws})

Last(s) == s[Len(s)]

\* C4: with max = 10 and window = 60000 ms, among the /convert commands of a chat
\* handled in one window (no reset in between) the first 10 pass the rate-limit
\* check and the later ones are rejected, with the rate-limit reply only (no prompt,
\* no pair reply); a /convert handled more than 60000 ms after the window start
\* sets count to 1 and the window start to now, and passes.
C4_RateLimit ==
    /\ RATE_LIMIT_MAX_REQUESTS = 10 /\ RATE_LIMIT_WINDOW_MS = 60000
    /\ \A c \in Chats : \A i \in 1..Len(convLog[c]) :
          LET e == convLog[c][i] IN
          /\ e.pass <=> WindowOrdinal(convLog[c], i) <= 10
          /\ (i > 1 /\ e.t - convLog[c][i - 1].ws > 60000) =>
                (e.cnt = 1 /\ e.ws = e.t /\ e.pass)
    /\ (lastDone.kind = "convert" /\ lastDone.result # "nomatch") =>
          LET e == Last(convLog[lastDone.chat]) IN
          /\ ~e.pass <=> lastDone.result = "rate_limited"
          /\ ~e.pass => lastDone.out = <<Msg(lastDone.chat, "rate_limit_exceeded", <<>>)>>

C4_Witness ==
    \E c \in Chats : \E i, j \in 1..Len(convLog[c]) :
        /\ i < j
        /\ WindowOrdinal(convLog[c], i) = 11 /\ ~convLog[c][i].pass
        /\ convLog[c][j].cnt = 1 /\ convLog[c][j].ws > convLog[c][i].ws /\ convLog[c][j].pass

\* C5 as stated: in every time interval shorter than the window, at most
\* RATE_LIMIT_MAX_REQUESTS /convert commands of a chat pass the rate-limit check.
C5_SlidingWindow ==
    \A c \in Chats : \A i, j \in 1..Len(convLog[c]) :
        (i <= j /\ convLog[c][j].t - convLog[c][i].t < RATE_LIMIT_WINDOW_MS) =>
            Cardinality({k \in i..j : convLog[c][k].pass}) <= RATE_LIMIT_MAX_REQUESTS

\* C5 amended: the limiter is a fixed window anchored at lastReset: of the /convert
\* commands of a chat handled while one window start is current, at most
\* RATE_LIMIT_MAX_REQUESTS pass the rate-limit check.
C5_FixedWindow ==
    \A c \in Chats : \A i \in 1..Len(convLog[c]) :
        Cardinality({k \in 1..Len(convLog[c]) :
                        convLog[c][k].ws = convLog[c][i].ws /\ convLog[c][k].pass})
            <= RATE_LIMIT_MAX_REQUESTS

C5_Witness ==
    \E c \in Chats : \E i \in 1..Len(convLog[c]) :
        /\ ~convLog[c][i].pass
        /\ Cardinality({k \in 1..i : convLog[c][k].ws = convLog[c][i].ws /\ convLog[c][k].pass})
              = RATE_LIMIT_MAX_REQUESTS

\* C6: a step in which the /convert handler runs changes no order row and issues no
\* exchange request; when the pair is in the registry (either direction) and the
\* limit is not exceeded its only message is the prompt whose confirm button carries
\* confirm_convert_<FROM>_<TO>_<amount> (upper-case symbols), and otherwise its only
\* message is the rate-limit reply or the unsupported-pair reply.
IsLower(ch) == ch \in {"a", "b", "c"}

C6_Action ==
    (Returned /\ lastDone'.kind = "convert") =>
        LET d == lastDone'
            inRegistry == \E i \in 1..Len(supportedAssets) :
                              {supportedAssets[i].fromAsset, supportedAssets[i].toAsset}
                                  = {d.fromAsset, d.toAsset}
            over == userRateLimits'[d.chat].count > RATE_LIMIT_MAX_REQUESTS
        IN /\ orders' = orders /\ calls' = calls /\ tasks' = tasks
           /\ d.quoteCalls + d.acceptCalls + d.placeCalls + d.cancelCalls = 0
           /\ d.result # "nomatch" =>
                /\ Len(d.out) = 1 /\ d.out[1].to = d.chat
                /\ Len(d.fromAsset) = Len(d.args[1]) /\ Len(d.toAsset) = Len(d.args[2])
                /\ \A k \in 1..Len(d.fromAsset) : ~IsLower(d.fromAsset[k])
                /\ \A k \in 1..Len(d.toAsset) : ~IsLower(d.toAsset[k])
                /\ IF inRegistry /\ ~over
                   THEN /\ d.out[1].kind = "confirm_prompt"
                        /\ d.out[1].data =
                              ConfirmText(d.fromAsset, d.toAsset, NumberToString(d.amount))
                   ELSE /\ d.out[1].kind \in {"rate_limit_exceeded", "pair_not_supported"}
                        /\ prompts' = prompts

C6_ConvertOnlyPrompts == [][C6_Action]_vars

C6_Witness ==
    /\ lastDone.kind = "convert" /\ lastDone.result = "prompt"
    /\ lastDone.args[1] = <<"a">>
    /\ lastDone.out = <<Msg(lastDone.chat, "confirm_prompt",
                            ConfirmText(<<"A">>, <<"B">>, <<"0", ".", "5">>))>>
    /\ userRateLimits[lastDone.chat].count = RATE_LIMIT_MAX_REQUESTS

\* C7: a /placeorder whose amount or price is not > 0 (a negative amount, which the
\* command pattern does not even match, or a zero) issues no limit-order request and
\* creates no order row.
NotPositiveToken(tok) == tok \in {<<"-", "5">>, <<"0">>}

BadPlaceOrder(t) ==
    /\ t.kind = "placeorder"
    /\ (NotPositiveToken(t.args[3]) \/ NotPositiveToken(t.args[4]))

C7_State ==
    \A t \in Invocations :
        BadPlaceOrder(t) => (t.placeCalls = 0 /\ t.rowId = NoId /\ t.pc = "done")

C7_Action ==
    (Returned /\ BadPlaceOrder(lastDone')) => (orders' = orders /\ calls' = calls)

C7_NoCallNoRow == []C7_State /\ [][C7_Action]_vars

C7_Witness ==
    /\ BadPlaceOrder(lastDone) /\ lastDone.result = "invalid"
    /\ lastDone.args[3] = <<"0">> /\ lastDone.args[4] = <<"5">>
    /\ isSupported(supportedAssets, lastDone.fromAsset, lastDone.toAsset)

\* C8: when the limit-order request of a valid /placeorder on a supported pair
\* returns, exactly one row is inserted: with the returned orderId, the requesting
\* chat and status 'pending' if the exchange returned an orderId, and otherwise with
\* a locally generated id and status 'failed', the admin being notified.
C8_Action ==
    (Returned /\ lastDone'.kind = "placeorder" /\ lastDone'.placeCalls = 1) =>
        LET d == lastDone' IN
        /\ orders \subseteq orders'
        /\ Cardinality(orders' \ orders) = 1
        /\ \A r \in orders' \ orders :
              /\ r.chatId = d.chat
              /\ IF d.resp = "id"
                 THEN /\ r.orderId = d.exchId /\ r.orderId.src = "exchange"
                      /\ r.status = "pending"
                 ELSE /\ r.orderId.src = "local"
                      /\ r.status = "failed"
                      /\ Sent(d, ADMIN_CHAT_ID, "admin_error")

C8_PlaceOrderRow == [][C8_Action]_vars

C8_Witness ==
    /\ lastDone.kind = "placeorder" /\ lastDone.resp = "id"
    /\ \E r \in orders : r.orderId = lastDone.exchId /\ r.status = "pending"
    /\ \E r \in orders : r.orderId.src = "local" /\ r.status = "failed" /\ r.amount = 50

\* C9: when the cancel request of /cancelorder id threw or returned no orderId, the
\* step changes no order row and the handler has sent an error reply to the user and
\* a notification to the admin; when it returned an orderId, every row with the
\* requested id has status 'canceled' afterwards.
C9_Action ==
    (Returned /\ lastDone'.kind = "cancelorder") =>
        LET d == lastDone' IN
        IF d.resp = "id"
        THEN /\ \A r \in orders' : r.orderId = d.reqId => r.status = "canceled"
             /\ {r.orderId : r \in orders'} = {r.orderId : r \in orders}
        ELSE /\ orders' = orders
             /\ Sent(d, d.chat, "convert_failed")
             /\ Sent(d, ADMIN_CHAT_ID, "admin_error")

C9_CancelOrder == [][C9_Action]_vars

C9_WitnessFailed ==
    /\ lastDone.kind = "cancelorder" /\ lastDone.resp = "noid"
    /\ \E r \in orders : r.orderId = lastDone.reqId /\ r.status = "pending"

C9_Witness ==
    /\ lastDone.kind = "cancelorder" /\ lastDone.resp = "id"
    /\ \E r \in orders : r.orderId = lastDone.reqId /\ r.status = "canceled"

\* C10: the status of an order row changes only from 'pending'; a row whose status
\* is 'failed', 'completed' or 'canceled' keeps it in every step.
C10_Action ==
    \A r \in orders : \A q \in orders' :
        (q.orderId = r.orderId /\ q.status # r.status) => r.status = "pending"

C10_Lifecycle == [][C10_Action]_vars

\* C11: no step changes a field other than status of an existing order row, and no
\* step removes a row (so a row inserted as 'pending' and then cancelled keeps its
\* orderId, chatId, fromAsset, toAsset, amount, error and timestamp); and a /status
\* with the id and the chat of such a cancelled row replies with exactly that row:
\* its orderId and its status 'canceled'.
C11_FrameAction ==
    \A r \in orders : \E q \in orders' : q = [r EXCEPT !.status = q.status]

C11_Frame == [][C11_FrameAction]_vars

C11_StatusState ==
    lastDone.kind = "status" =>
        \A r \in SelectOrder(orders, lastDone.reqId, lastDone.chat) :
            r.status = "canceled" =>
                /\ lastDone.rowId = r.orderId
                /\ lastDone.out[1] = Msg(lastDone.chat, "order_status", <<"canceled">>)

C11_RoundTrip == []C11_StatusState /\ [][C11_FrameAction]_vars

\* C12: every order row with a non-null error field has status 'failed'.
C12_ErrorOnlyWhenFailed == \A r \in orders : r.error # "NULL" => r.status = "failed"

\* the unordered pair an entry of the registry denotes
Unordered(e) == {e.fromAsset, e.toAsset}

AdminKinds == {"addassets", "removeassets"}

\* C13: the in-memory registry never holds two entries that denote the same
\* unordered pair.
C13_SetSemantics ==
    \A i, j \in 1..Len(supportedAssets) :
        i # j => Unordered(supportedAssets[i]) # Unordered(supportedAssets[j])

\* C14: an /addassets or /removeassets from a chat other than ADMIN_CHAT_ID gets the
\* permission-denied reply and nothing else: the step leaves the in-memory registry
\* and the registry file as they were, starts no file write and sends nothing to the
\* admin; and every step that changes the registry or starts a write belongs to a
\* handler of the admin chat.
C14_Action ==
    /\ (Returned /\ lastDone'.kind \in AdminKinds /\ lastDone'.chat # ADMIN_CHAT_ID) =>
          /\ lastDone'.out = <<Msg(lastDone'.chat, "permission_denied", <<>>)>>
          /\ ~Sent(lastDone', ADMIN_CHAT_ID, "admin_error")
          /\ supportedAssets' = supportedAssets /\ assetsFile' = assetsFile
          /\ calls' = calls /\ tasks' = tasks
    /\ (supportedAssets' # supportedAssets \/ calls'.write # calls.write) =>
          (Len(tasks') > 0 /\ Last(tasks').chat = ADMIN_CHAT_ID)
    /\ assetsFile' # assetsFile => (Returned /\ lastDone'.chat = ADMIN_CHAT_ID)

C14_AdminOnly == [][C14_Action]_vars

C14_Witness ==
    /\ lastDone.kind = "removeassets" /\ lastDone.chat # ADMIN_CHAT_ID
    /\ lastDone.result = "permission_denied"
    /\ isSupported(supportedAssets, PairFrom(lastDone.args[1]), PairTo(lastDone.args[1]))

\* C15: when the handler that returned last is an admin /removeassets that reported
\* a pair as removed, and no admin mutation has started since it started, a /convert
\* naming that pair in either direction gets the unsupported-pair reply.
C15_Action ==
    (/\ Returned /\ lastDone'.kind = "convert"
     /\ lastDone'.result \in {"prompt", "unsupported"}
     /\ lastDone.kind = "removeassets" /\ lastDone.result = "ack"
     /\ lastDone.writeNo = calls.write
     /\ \E i \in 1..Len(lastDone.removedPairs) :
           Unordered(lastDone.removedPairs[i]) = {lastDone'.fromAsset, lastDone'.toAsset})
    => lastDone'.result = "unsupported"

C15_RemovedUnsupported == [][C15_Action]_vars

\* C16: an admin /addassets or /removeassets hands the whole in-memory list, as it is
\* after the handler's change, to the file write; the acknowledgment is sent only in
\* the step in which that write has succeeded, the file then holding that list; and
\* when the write fails, the handler sends the failure reply and no acknowledgment.
C16_Action ==
    /\ calls'.write # calls.write =>
          /\ Last(tasks').pc = "write"
          /\ Last(tasks').content = supportedAssets'
          /\ lastDone' = lastDone
    /\ (Returned /\ lastDone'.kind \in AdminKinds /\ Sent(lastDone', lastDone'.chat, "assets_response"))
          => /\ lastDone'.resp = "ok"
             /\ assetsFile' = lastDone'.content
             /\ \E i \in 1..Len(tasks) : tasks[i].pc = "write" /\ tasks[i].writeNo = lastDone'.writeNo
    /\ (Returned /\ lastDone'.kind \in AdminKinds /\ lastDone'.resp = "throw")
          => /\ ~Sent(lastDone', lastDone'.chat, "assets_response")
             /\ Sent(lastDone', lastDone'.chat, "convert_failed")
             /\ assetsFile' = assetsFile

C16_WriteBeforeAck == [][C16_Action]_vars

C16_Witness ==
    /\ lastDone.kind = "addassets" /\ lastDone.result = "ack"
    /\ lastDone.newPairs # <<>>
    /\ assetsFile = lastDone.content /\ assetsFile # InitialAssets

\* C17: whenever no /addassets or /removeassets handler is in progress, the list in
\* the registry file equals the in-memory list.
C17_FileEqualsMemory ==
    (\A i \in 1..Len(tasks) : tasks[i].kind \notin AdminKinds) => assetsFile = supportedAssets

\* C18: for every content the registry takes and all symbols A, B, the pair check of
\* /convert and /placeorder, the duplicate test of /addassets, the search of
\* /removeassets and the search of /exchangeinfo each give the same answer for (A, B)
\* as for (B, A).
Symbols == {<<"A">>, <<"B">>, <<"C">>, <<"C", "_">>}

C18_DirectionAgnostic ==
    \A A \in Symbols, B \in Symbols :
        /\ isSupported(supportedAssets, A, B) = isSupported(supportedAssets, B, A)
        /\ exists(supportedAssets, A, B) = exists(supportedAssets, B, A)
        /\ findIndex(supportedAssets, A, B) = findIndex(supportedAssets, B, A)
        /\ pairInfo(supportedAssets, A, B) = pairInfo(supportedAssets, B, A)

C18_Witness ==
    /\ lastDone.kind = "convert" /\ lastDone.result = "prompt"
    /\ lastDone.fromAsset = <<"C">> /\ lastDone.toAsset = <<"B">>
    /\ \E i \in 1..Len(supportedAssets) : supportedAssets[i] = Pair(<<"B">>, <<"C">>)
    /\ \A i \in 1..Len(supportedAssets) : supportedAssets[i] # Pair(<<"C">>, <<"B">>)

\* C19: /status id from chat c replies with the status of the row (and its error
\* text if it is failed) when a row with that orderId and chatId c exists, and with
\* 'not found' when the id exists under another chat only or not at all; the step
\* changes no order row, no rate-limit state and no registry state.
C19_State ==
    lastDone.kind = "status" =>
        LET rows == SelectOrder(orders, lastDone.reqId, lastDone.chat) IN
        IF rows = {}
        THEN lastDone.out = <<Msg(lastDone.chat, "order_not_found", <<>>)>>
        ELSE \E r \in rows :
                /\ lastDone.rowId = r.orderId
                /\ lastDone.out[1] =
                      Msg(lastDone.chat, "order_status",
                          IF r.status = "failed" THEN <<r.status, r.error>> ELSE <<r.status>>)

C19_Action ==
    (Returned /\ lastDone'.kind = "status") =>
        /\ orders' = orders /\ userRateLimits' = userRateLimits
        /\ supportedAssets' = supportedAssets /\ assetsFile' = assetsFile

C19_StatusLookup == []C19_State /\ [][C19_Action]_vars

\* C20: /tradehistory from chat c replies 'no history' when c has no row, and
\* otherwise lists rows of c only, at most 10 of them, those with the greatest
\* timestamps, in descending order of timestamp; the step changes no state.
MaxListed == 10

IsLatestDescending(listed, rows) ==
    /\ Len(listed) = IF Cardinality(rows) < MaxListed THEN Cardinality(rows) ELSE MaxListed
    /\ \A i \in 1..Len(listed) : \E r \in rows : r.orderId = listed[i]
    /\ \A i, j \in 1..Len(listed) : i # j => listed[i] # listed[j]
    /\ \A i, j \in 1..Len(listed) : \A r, q \in rows :
          (i < j /\ r.orderId = listed[i] /\ q.orderId = listed[j]) => r.timestamp >= q.timestamp
    /\ \A r, q \in rows :
          ((\E i \in 1..Len(listed) : listed[i] = r.orderId)
             /\ ~(\E i \in 1..Len(listed) : listed[i] = q.orderId)) => r.timestamp >= q.timestamp

C20_State ==
    lastDone.kind = "tradehistory" =>
        LET rows == SelectByChat(orders, lastDone.chat) IN
        IF rows = {}
        THEN Sent(lastDone, lastDone.chat, "no_history")
        ELSE /\ Sent(lastDone, lastDone.chat, "trade_history")
             /\ IsLatestDescending(lastDone.listed, rows)

C20_Action ==
    (Returned /\ lastDone'.kind = "tradehistory") =>
        /\ orders' = orders /\ userRateLimits' = userRateLimits
        /\ supportedAssets' = supportedAssets /\ assetsFile' = assetsFile

C20_TradeHistory == []C20_State /\ [][C20_Action]_vars

-----------------------------------------------------------------------------
(* Dispatch, rate-limit state, amounts, language *)

\* the number of messages of the given kinds that an invocation sent to its chat
RECURSIVE CountKinds(_, _, _)
CountKinds(out, to, kinds) ==
    IF out = <<>> THEN 0
    ELSE (IF Head(out).to = to /\ Head(out).kind \in kinds THEN 1 ELSE 0)
         + CountKinds(Tail(out), to, kinds)

\* C21: every inbound update is answered once: a /tradehistory yields exactly one
\* history reply, an /assetinfo naming assets yields exactly one asset-info reply
\* and one exchange lookup per named asset, and a text that is neither a command
\* nor a menu label yields exactly one 'unknown command' reply.
C21_State ==
    /\ lastDone.kind = "tradehistory" =>
          CountKinds(lastDone.out, lastDone.chat,
                     {"no_history", "trade_history", "convert_failed"}) = 1
    /\ (lastDone.kind = "assetinfo" /\ lastDone.result = "info") =>
          CountKinds(lastDone.out, lastDone.chat, {"asset_info"}) = 1
    /\ (lastDone.kind = "message" /\ lastDone.args[1] \notin MenuLabels) =>
          CountKinds(lastDone.out, lastDone.chat, {"unknown_command"}) = 1

C21_Action ==
    (Returned /\ lastDone'.kind = "assetinfo") =>
        calls'.info - calls.info = Len(lastDone'.assets)

C21_OneEffect == []C21_State /\ [][C21_Action]_vars

\* C22 as stated: only /convert creates or changes an entry of the rate-limit
\* state, and only /convert is rejected for rate-limit reasons.
C22_ConvertOnlyAction ==
    /\ userRateLimits' # userRateLimits => (Returned /\ lastDone'.kind = "convert")
    /\ (Returned /\ lastDone'.result = "rate_limited") => lastDone'.kind = "convert"

C22_ConvertOnly == [][C22_ConvertOnlyAction]_vars

\* C22 amended: the rate-limit state changes only in a step in which /convert
\* returns, or in which /start returns for a chat that has no entry and gives it
\* the entry {count 0, lastReset now, lang 'zh'} while every other entry stays;
\* and only /convert is rejected for rate-limit reasons.
C22_Action ==
    /\ userRateLimits' # userRateLimits =>
          /\ Returned
          /\ \/ lastDone'.kind = "convert"
             \/ /\ lastDone'.kind = "start"
                /\ lastDone'.chat \notin DOMAIN userRateLimits
                /\ DOMAIN userRateLimits' = DOMAIN userRateLimits \cup {lastDone'.chat}
                /\ userRateLimits'[lastDone'.chat] =
                      [count |-> 0, lastReset |-> now, lang |-> "zh"]
                /\ \A x \in DOMAIN userRateLimits : userRateLimits'[x] = userRateLimits[x]
    /\ (Returned /\ lastDone'.result = "rate_limited") => lastDone'.kind = "convert"

C22_RateStateFrame == [][C22_Action]_vars

\* /start has returned and has given its chat an entry that counts no /convert,
\* after another handler had returned and left the state alone
C22_Witness ==
    /\ lastDone.kind = "start"
    /\ lastDone.seq = 2
    /\ lastDone.chat \in DOMAIN userRateLimits
    /\ userRateLimits[lastDone.chat].count = 0
    /\ DOMAIN userRateLimits = {lastDone.chat}

\* C23: every row of the store with status 'pending' or 'completed' has an
\* amount greater than zero, whatever amounts /convert and /placeorder were given.
C23_PositiveAmount ==
    \A r \in orders : r.status \in {"pending", "completed"} => r.amount > 0

\* C24: once a chat's /setlang en has been handled, the chat's language
\* preference is 'en' (and stays so while the process runs).
C24_SetLang ==
    (lastDone.kind = "unmatched" /\ lastDone.args[1] \in UnmatchedTexts) =>
        /\ lastDone.chat \in DOMAIN userRateLimits
        /\ userRateLimits[lastDone.chat].lang = "en"

\* C25: every quote request (and so every accept request) is made for a pair
\* that is in the registry when the confirm callback is handled, also when the
\* admin removed the pair between the prompt and the tap.
C25_Action ==
    (Len(tasks') = Len(tasks) + 1 /\ Last(tasks').kind = "confirm") =>
        /\ calls'.quote = calls.quote + 1
        /\ isSupported(supportedAssets, Last(tasks').fromAsset, Last(tasks').toAsset)

C25_PolicyBeforeQuote == [][C25_Action]_vars

\* C26: two confirm callbacks of one prompt both run the whole conversion,
\* however their steps interleave: every confirm callback issues its own quote
\* request, whatever other invocation is under way or has returned; a quote that
\* carried a quoteId is followed by that invocation's own accept request; and
\* every confirm invocation that returns has inserted exactly one row of its own.
C26_Action ==
    /\ Len(tasks') = Len(tasks) + 1 =>
          (Last(tasks').kind = "confirm" =>
              /\ calls'.quote = calls.quote + 1
              /\ Last(tasks').quoteCalls = 1
              /\ Last(tasks').pc = "quote")
    /\ Returned =>
          (lastDone'.kind = "confirm" =>
              /\ lastDone'.quoteCalls = 1
              /\ lastDone'.quoteResp \in QuoteIds => lastDone'.acceptCalls = 1
              /\ orders \subseteq orders'
              /\ Cardinality(orders') = Cardinality(orders) + 1
              /\ \A r \in orders' \ orders :
                    r.orderId = lastDone'.rowId /\ r.chatId = lastDone'.chat)

C26_DoubleSubmit == [][C26_Action]_vars

\* one prompt, tapped twice while the first conversion was under way: two quote
\* requests, two accept requests and two 'completed' rows of the same conversion
C26_Witness ==
    /\ Cardinality(prompts) = 1
    /\ nCmds = 3
    /\ calls.quote = 2 /\ calls.accept = 2
    /\ Cardinality(orders) = 2
    /\ \A r \in orders : r.status = "completed"
    /\ \A r1, r2 \in orders :
          r1.chatId = r2.chatId /\ r1.fromAsset = r2.fromAsset /\ r1.toAsset = r2.toAsset
          /\ r1.amount = r2.amount

-----------------------------------------------------------------------------
(* Errors and replies *)

\* C27: no failure of an exchange call, of an operation on the order store (the
\* INSERT of the failed row in a handler's catch block included) or of the write
\* of the registry file leaves the handler in which it happened: every
\* invocation returns with the failure caught.
C27_NoEscape == lastDone.escaped = "none"

\* C28: in every rich-text reply the dynamic text has escapeMarkdownV2 applied
\* exactly once: what is sent is the fixed text (escaped or not) followed by the
\* once-escaped dynamic text; this covers the failure replies of the handlers.
C28_SinglePass ==
    lastDone.kind = "reply" =>
        \E fixed \in {Heading, escapeMarkdownV2(Heading)} :
            lastDone.data = fixed \o escapeMarkdownV2(lastDone.args[1])

-----------------------------------------------------------------------------
(* Information queries *)

\* the pairs a sequence of pieces names, those with a symbol on both sides of the colon
RECURSIVE WellFormed(_)
WellFormed(pieces) ==
    IF pieces = <<>> THEN <<>>
    ELSE LET from == PairFrom(Head(pieces))
             to == PairTo(Head(pieces))
         IN (IF Falsy(from) \/ Falsy(to) THEN <<>> ELSE <<Pair(from, to)>>)
            \o WellFormed(Tail(pieces))

Range(seq) == {seq[i] : i \in 1..Len(seq)}

\* what C29 says of an invocation t of /exchangeinfo that met the registry
\* assets and issued the given number of requests
ExchangeInfoAnswer(t, assets, requests) ==
    LET pairs == WellFormed(AssetPairs(t.args[1]))
        queried == {k \in 1..Len(pairs) :
                       isSupported(assets, pairs[k].fromAsset, pairs[k].toAsset)}
        returned == {j \in 1..Len(t.outcomes) : t.outcomes[j] = "pair"}
        info == Range(t.exchangeInfoList)
        notFound == Range(t.notFoundPairs)
    IN /\ requests = Cardinality(queried)
       /\ Len(t.outcomes) = Cardinality(queried)
       /\ Len(t.exchangeInfoList) = Cardinality(returned)
       /\ Len(t.exchangeInfoList) + Len(t.notFoundPairs) = Len(pairs)
       /\ \A k \in 1..Len(pairs) :
             /\ pairs[k] \in info \cup notFound
             /\ ~(pairs[k] \in info /\ pairs[k] \in notFound)
             /\ k \notin queried => pairs[k] \in notFound
       /\ \A e \in info : isSupported(assets, e.fromAsset, e.toAsset)

\* C29: an /exchangeinfo that names pairs asks the exchange once for every named
\* pair that is in the registry (in either direction) and for no other; every
\* well-formed named pair is in exactly one of the two lists, the info list when
\* it is in the registry and the exchange returned it, the not-found list
\* otherwise (not in the registry, not returned, or the request failed); and the
\* command changes no state.
C29_Action ==
    (Returned /\ lastDone'.kind = "exchangeinfo" /\ lastDone'.result = "info") =>
        /\ ExchangeInfoAnswer(lastDone', supportedAssets, calls'.info - calls.info)
        /\ UNCHANGED <<userRateLimits, supportedAssets, assetsFile, orders, prompts,
                       tasks, nextOrd, nextHex>>

C29_ExchangeInfo == [][C29_Action]_vars

\* two pairs of the registry were named: the exchange returned one and not the
\* other
C29_Witness ==
    /\ lastDone.kind = "exchangeinfo"
    /\ Len(lastDone.exchangeInfoList) = 1
    /\ Len(lastDone.notFoundPairs) = 1
    /\ lastDone.outcomes = <<"pair", "none">>

\* the assets, in order, whose request had an outcome among vals
RECURSIVE WithOutcome(_, _, _, _)
WithOutcome(assets, rs, vals, k) ==
    IF k > Len(assets) THEN <<>>
    ELSE (IF rs[k] \in vals THEN <<assets[k]>> ELSE <<>>) \o WithOutcome(assets, rs, vals, k + 1)

\* what C30 says of the h-th of the handlers that an /assetinfo ran
AssetInfoAnswer(t, h) ==
    /\ t.assetInfoList[h] = WithOutcome(t.assets, t.outcomes[h], {"asset"}, 1)
    /\ t.notFoundAssets[h] = WithOutcome(t.assets, t.outcomes[h], {"noasset", "throw"}, 1)
    /\ Len(t.assetInfoList[h]) + Len(t.notFoundAssets[h]) = Len(t.assets)

\* C30: an /assetinfo that names n assets puts every one of them in exactly one
\* of the found list and the not-found list; an asset whose request failed goes
\* to the not-found list and the requests for the others are still made (n
\* requests by each handler that runs); and every handler that runs sends its
\* reply.
C30_Action ==
    (Returned /\ lastDone'.kind = "assetinfo" /\ lastDone'.result = "info") =>
        /\ \A h \in 1..Len(lastDone'.outcomes) : AssetInfoAnswer(lastDone', h)
        /\ calls'.info - calls.info = Len(lastDone'.outcomes) * Len(lastDone'.assets)
        /\ CountKinds(lastDone'.out, lastDone'.chat, {"asset_info"}) = Len(lastDone'.outcomes)

C30_AssetInfo == [][C30_Action]_vars

\* the request for the first of two assets failed and the second asset was found
C30_Witness ==
    /\ lastDone.kind = "assetinfo"
    /\ lastDone.outcomes[1] = <<"throw", "asset">>
    /\ Len(lastDone.notFoundAssets[1]) = 1
    /\ Len(lastDone.assetInfoList[1]) = 1
    /\ Sent(lastDone, lastDone.chat, "asset_info")

-----------------------------------------------------------------------------
(* Symbols, startup, ownership *)

\* the registry holds the unordered pair {from, to} up to letter case
Present(assets, from, to) ==
    \E i \in 1..Len(assets) :
        {toUpperCase(assets[i].fromAsset), toUpperCase(assets[i].toAsset)}
            = {toUpperCase(from), toUpperCase(to)}

AllPresent(assets, pairs) ==
    \A i \in 1..Len(pairs) : Present(assets, pairs[i].fromAsset, pairs[i].toAsset)

NonePresent(assets, pairs) ==
    \A i \in 1..Len(pairs) : ~Present(assets, pairs[i].fromAsset, pairs[i].toAsset)

\* what C31 says of the invocation t that met the registry assets
CaseAnswer(t, assets) ==
    /\ (t.kind \in {"convert", "placeorder"} /\ t.result = "unsupported") =>
          ~Present(assets, t.fromAsset, t.toAsset)
    /\ ((t.kind = "convert" /\ t.result = "prompt") \/ (t.kind = "placeorder" /\ t.pc = "place")) =>
          Present(assets, t.fromAsset, t.toAsset)
    /\ t.kind = "addassets" =>
          AllPresent(assets, t.existingPairs) /\ NonePresent(assets, t.newPairs)
    /\ t.kind = "removeassets" =>
          AllPresent(assets, t.removedPairs) /\ NonePresent(assets, t.notFoundPairs)

\* C31: whatever the registry file holds and whatever letter case the user
\* types, /convert, /placeorder, /addassets and /removeassets treat a pair as
\* present exactly when the registry holds the same unordered pair up to case.
C31_Action ==
    /\ (Returned /\ lastDone'.kind \in {"convert", "placeorder"}) =>
          CaseAnswer(lastDone', supportedAssets)
    /\ Len(tasks') = Len(tasks) + 1 => CaseAnswer(Last(tasks'), supportedAssets)

C31_CaseNormalised == [][C31_Action]_vars

\* a handler has run, or is running
HandlerRan == nCmds > 0 \/ tasks # <<>> \/ lastDone.kind \notin {"none", "startup"}

C32_State ==
    /\ HandlerRan => calls.load = 1 /\ lastDone.escaped # "exit"
    /\ lastDone.escaped = "exit" =>
          /\ calls.load = 0
          /\ supportedAssets = <<>>
          /\ lastDone.out = <<Msg(ADMIN_CHAT_ID, "admin_error", <<"load failed">>)>>

C32_Action ==
    /\ calls.load = 0 /\ nCmds' # nCmds => FALSE
    /\ calls'.load # calls.load => ~HandlerRan /\ supportedAssets' = assetsFile
    /\ lastDone.escaped = "exit" => UNCHANGED vars

\* C32: handlers are registered only after the registry was loaded; when the
\* load fails the admin is notified, the process exits, and no handler is ever
\* registered or run.
C32_StartupOrdering == []C32_State /\ [][C32_Action]_vars

C32_Witness ==
    /\ calls.load = 1
    /\ lastDone.kind = "convert"
    /\ lastDone.result = "prompt"
    /\ nCmds = 1

\* the step handles a /cancelorder command
CancelDelivered ==
    /\ nCmds' = nCmds + 1
    /\ \/ Len(tasks') = Len(tasks) + 1 /\ Last(tasks').kind = "cancelorder"
       \/ Returned /\ lastDone'.kind = "cancelorder"

C33_Action ==
    /\ CancelDelivered =>
          /\ calls'.cancel = calls.cancel + 1
          /\ Len(tasks') = Len(tasks) + 1
          /\ Last(tasks').pc = "cancel"
          /\ orders' = orders
          /\ lastDone' = lastDone
    /\ (Returned /\ lastDone'.kind = "cancelorder" /\ lastDone'.resp = "id") =>
          orders' = {IF r.orderId = lastDone'.reqId THEN [r EXCEPT !.status = "canceled"] ELSE r :
                       r \in orders}

\* C33: /cancelorder id from any chat calls the exchange cancel endpoint with no
\* earlier look-up of the row or of its owner, and when the exchange answers
\* with an order id, the row with the requested id becomes 'canceled', whichever
\* chat owns it.
C33_CancelUnowned == [][C33_Action]_vars

\* a chat has cancelled the row of another chat
C33_Witness ==
    /\ lastDone.kind = "cancelorder"
    /\ lastDone.result = "canceled"
    /\ \E r \in orders :
          r.orderId = lastDone.reqId /\ r.chatId # lastDone.chat /\ r.status = "canceled"

\* the exchange was asked to cancel an id that no row carries
C33_WitnessNoRow ==
    \E i \in 1..Len(tasks) :
        /\ tasks[i].pc = "cancel"
        /\ \A r \in orders : r.orderId # tasks[i].reqId

C34_Action ==
    (Returned /\ lastDone'.kind = "confirm") =>
        /\ Cardinality(orders') = Cardinality(orders) + 1
        /\ \E r \in orders' \ orders :
              /\ r.chatId = lastDone'.chat
              /\ r.status \in {"completed", "failed"}

\* C34: one handled confirm callback inserts exactly one row, 'completed' or
\* 'failed' and never both, also when the success message or the menu message
\* after the completed INSERT is refused.
C34_OneRow == [][C34_Action]_vars

\* what the callback handler reads out of the callback data
Parsed(data) ==
    LET parts == Split(data, "_")
    IN <<Part(parts, 2), Part(parts, 3), parseFloat(Part(parts, 4))>>

C35_Action ==
    /\ (Returned /\ lastDone'.kind = "convert" /\ lastDone'.result = "prompt") =>
          Parsed(lastDone'.data)
              = <<lastDone'.fromAsset, lastDone'.toAsset, lastDone'.amount>>
    /\ (Len(tasks') = Len(tasks) + 1 /\ Last(tasks').kind = "confirm") =>
          \E f \in FromTokens, t \in ToTokens, a \in AmountTokens :
              /\ ConvertMatches(f, t, a)
              /\ Last(tasks').data
                    = ConfirmData(toUpperCase(f), toUpperCase(t),
                                  parseFloat(SubSeq(a, 1, AmountMatchLen(a))))
              /\ Last(tasks').fromAsset = toUpperCase(f)
              /\ Last(tasks').toAsset = toUpperCase(t)
              /\ Last(tasks').amount = parseFloat(SubSeq(a, 1, AmountMatchLen(a)))

\* C35: for every (fromAsset, toAsset, amount) for which /convert sends a
\* confirm prompt, the callback handler reads the same three values out of the
\* prompt's callback data, for every symbol the /convert pattern accepts.
C35_RoundTrip == [][C35_Action]_vars

-----------------------------------------------------------------------------
(* The rate limiter under /start and across chats *)

\* the /convert commands of chat c handled while the window that began at w was current
InWindow(c, w) == {k \in 1..Len(convLog[c]) : convLog[c][k].ws = w}

Passed(c, w) == {k \in InWindow(c, w) : convLog[c][k].pass}

C36_Action ==
    (Returned /\ lastDone'.kind = "start") =>
        LET c == lastDone'.chat IN
        IF c \in DOMAIN userRateLimits
        THEN userRateLimits' = userRateLimits
        ELSE /\ DOMAIN userRateLimits' = DOMAIN userRateLimits \cup {c}
             /\ userRateLimits'[c].count = 0
             /\ userRateLimits'[c].lastReset = now
             /\ \A x \in DOMAIN userRateLimits : userRateLimits'[x] = userRateLimits[x]

C36_State ==
    \A c \in DOMAIN userRateLimits :
        LET w == userRateLimits[c].lastReset IN
        /\ userRateLimits[c].count = Cardinality(InWindow(c, w))
        /\ \A k \in 1..Len(convLog[c]) :
              Cardinality(Passed(c, convLog[c][k].ws)) <= RATE_LIMIT_MAX_REQUESTS

\* C36: /start leaves the rate-limit state of a chat that has one unchanged, and
\* creates {count 0, lastReset now} for a chat that has none; the count is always
\* the number of /convert commands handled in the current window, so at most
\* RATE_LIMIT_MAX_REQUESTS of them pass in the window /start opened.
C36_StartKeepsQuota == []C36_State /\ [][C36_Action]_vars

\* a window opened by /start (its first /convert came later than its start), in
\* which RATE_LIMIT_MAX_REQUESTS commands passed and one was rejected, and a
\* /start that has just been handled for the chat
C36_Witness ==
    /\ lastDone.kind = "start"
    /\ lastDone.chat \in DOMAIN userRateLimits
    /\ LET c == lastDone.chat
           w == userRateLimits[c].lastReset
       IN /\ Cardinality(Passed(c, w)) = RATE_LIMIT_MAX_REQUESTS
          /\ Cardinality(InWindow(c, w)) = RATE_LIMIT_MAX_REQUESTS + 1
          /\ \A k \in InWindow(c, w) : convLog[c][k].t > w

\* the limiter entry of a chat after the first i of its /convert commands, when
\* nothing but these commands and their times is taken into account
RECURSIVE OwnEntry(_, _)
OwnEntry(log, i) ==
    IF i = 1 THEN [count |-> 1, lastReset |-> log[1].t]
    ELSE LET p == OwnEntry(log, i - 1) IN
         IF log[i].t - p.lastReset > RATE_LIMIT_WINDOW_MS
         THEN [count |-> 1, lastReset |-> log[i].t]
         ELSE [count |-> p.count + 1, lastReset |-> p.lastReset]

\* C37 as stated: whether a /convert of a chat is rejected depends only on the
\* earlier /convert commands of that chat and their times.
C37_OwnConverts ==
    \A c \in Chats : \A i \in 1..Len(convLog[c]) :
        convLog[c][i].pass <=> OwnEntry(convLog[c], i).count <= RATE_LIMIT_MAX_REQUESTS

\* chat y has a limiter entry after the step that it had not, or that differs
EntryChanged(y) ==
    /\ y \in DOMAIN userRateLimits'
    /\ y \notin DOMAIN userRateLimits \/ userRateLimits'[y] # userRateLimits[y]

C37_Action ==
    /\ \A y \in Chats :
          (EntryChanged(y) \/ convLog'[y] # convLog[y]) =>
              /\ Returned
              /\ lastDone'.chat = y
              /\ lastDone'.kind \in {"start", "convert"}
    /\ DOMAIN userRateLimits \subseteq DOMAIN userRateLimits'
    /\ (Returned /\ lastDone'.kind = "convert" /\ lastDone'.result # "nomatch") =>
          LET c == lastDone'.chat IN
          lastDone'.result = "rate_limited" <=>
              /\ c \in DOMAIN userRateLimits
              /\ now - userRateLimits[c].lastReset <= RATE_LIMIT_WINDOW_MS
              /\ userRateLimits[c].count + 1 > RATE_LIMIT_MAX_REQUESTS

\* C37 amended: a /convert handled for a chat changes only that chat's entry, an
\* entry changes only when a /start or a /convert of its own chat is handled,
\* and whether a /convert is rejected is decided by the entry of its own chat
\* and the time: it depends only on the chat's own earlier /start and /convert
\* commands and their times.
C37_Isolation == [][C37_Action]_vars

\* a /convert rejected for one chat while the other chat, which had one
\* /convert of its own handled in between, still has the count 1
C37_Witness ==
    /\ lastDone.kind = "convert"
    /\ lastDone.result = "rate_limited"
    /\ userRateLimits[lastDone.chat].count = RATE_LIMIT_MAX_REQUESTS + 1
    /\ \E x \in DOMAIN userRateLimits \ {lastDone.chat} :
          userRateLimits[x].count = 1 /\ Len(convLog[x]) = 1

-----------------------------------------------------------------------------
(* Order store integrity *)

C38_State == \A r1, r2 \in orders : r1.orderId = r2.orderId => r1 = r2

C38_Action ==
    /\ \A r \in orders : \E r2 \in orders' : r2.orderId = r.orderId
    /\ Cardinality(orders') >= Cardinality(orders)
    /\ (Returned /\ lastDone'.kind = "placeorder"
          /\ \E r \in orders : r.orderId = lastDone'.rowId) => orders' = orders

\* C38: no two rows share an orderId, no step removes a row, and an INSERT whose
\* orderId is already stored adds no row and leaves the stored row as it was.
C38_StoreIntegrity == []C38_State /\ [][C38_Action]_vars

\* the exchange answered a /placeorder with the id of a stored row that differs
\* from the row the handler tried to insert
C38_Witness ==
    /\ lastDone.kind = "placeorder"
    /\ lastDone.escaped = "uncaughtException"
    /\ \E r \in orders :
          /\ r.orderId = lastDone.rowId
          /\ r.chatId # lastDone.chat \/ r.status # "pending"

=============================================================================
